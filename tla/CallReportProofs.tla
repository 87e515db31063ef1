-------------------------- MODULE CallReportProofs --------------------------
(***************************************************************************)
(* What the events tell of the requests, for every operation of the three  *)
(* clients and all arguments; and that a well-formed response to a request *)
(* that was run is returned.                                               *)
(***************************************************************************)
EXTENDS CardRoutingProofs

(* The requests for a subscription; those for payments are named in         *)
(* CardRoutingProofs.                                                       *)
SetupRequest(request) ==
    \E m, a, i, id, terms, x, y, z, end, order_end :
        LET o == Order(m, a, i)
        IN  \/ request = build_subscription_setup_upi_intent(o, id, terms, x, y, z, order_end, end)
            \/ request = build_subscription_setup_upi_collect(o, id, terms, x, y, end, order_end)

NotifyRequest(request) ==
    \E m, a, i, id, retry, auto_debit, expire_at :
        request = build_subscription_notify_request(Order(m, a, i), id, retry, auto_debit, expire_at)

(* The requests of the other operations. *)
RefundRequest(request) ==
    \E id, amount, order : request = build_refund_request(id, amount, order)

CheckoutRequest(request) ==
    \E m, a, i, x, y, z, u, v :
        LET o == Order(m, a, i)
        IN  \/ request = StandardCheckoutPayRequest_build_request(o, x, y, z, u, v)
            \/ request = build_standard_checkout_request(o, x, y, z)
            \/ request = build_custom_checkout_request(o, x)

(* Every operation of the clients, called with the requests made for it. *)
FittingOperation(operation) ==
    \/ \E request :
          \/ /\ CardRequest(request) \/ CardlessRequest(request) \/ Flowlessly(request)
             /\ operation = Custom!pay(request)
          \/ /\ SetupRequest(request) \/ Flowlessly(request)
             /\ operation = Subscription!setup(request)
          \/ /\ NotifyRequest(request) \/ Flowlessly(request)
             /\ operation = Subscription!notify(request)
          \/ /\ CheckoutRequest(request)
             /\ operation \in {Standard!pay(request), Standard!create_sdk_order(request),
                               Custom!create_sdk_order(request)}
          \/ /\ RefundRequest(request)
             /\ operation \in {Standard!refund(request), Custom!refund(request),
                               Subscription!refund(request)}
    \/ \E id, details :
          operation \in
            {Standard!get_order_status(id, details), Standard!get_refund_status(id),
             Standard!get_transaction_status(id),
             Custom!get_order_status(id, details), Custom!get_refund_status(id),
             Custom!get_transaction_status(id), Subscription!redeem(id),
             Subscription!get_subscription_status(id), Subscription!get_order_status(id),
             Subscription!get_transaction_status(id), Subscription!cancel_subscription(id),
             Subscription!get_refund_status(id)}

-----------------------------------------------------------------------------
(* Whether an event can be matched with the request of its operation. *)
Traces(operation, event) ==
    LET unmentioned == RequestIds(operation) \ (EventIds(event) \cup {None})
    IN  /\ event.data.api_path = operation.url
        /\ EventIds(event) \ {None} \subseteq RequestIds(operation)
        /\ unmentioned # {} =>
              /\ operation.url = <<"/subscriptions/v2/notify">>
              /\ unmentioned = {operation.data.payment_flow.merchant_subscription_id}
        /\ event.data.amount = Attr(operation.data, "amount")
        /\ event.data.expire_after = Attr(operation.data, "expire_after")
        /\ event.data.order_expire_at = Attr(operation.data, "expire_at")

(* What a request says, and what an event tells of it. *)
Facts(data) ==
    [order |-> Attr(data, "merchant_order_id"),
     refund |-> Attr(data, "merchant_refund_id"),
     original |-> Attr(data, "original_merchant_order_id"),
     subscription |-> Attr(Attr(data, "payment_flow"), "merchant_subscription_id"),
     amount |-> Attr(data, "amount"),
     expire_after |-> Attr(data, "expire_after"),
     expire_at |-> Attr(data, "expire_at")]

Told(event) ==
    [order |-> event.merchant_order_id,
     refund |-> event.data.merchant_refund_id,
     original |-> event.data.original_merchant_order_id,
     subscription |-> event.data.merchant_subscription_id,
     amount |-> event.data.amount,
     expire_after |-> event.data.expire_after,
     expire_at |-> event.data.order_expire_at]

(* An event that tells the facts of a request without an id in its url can  *)
(* be matched with it; that of a notify call may leave out the subscription. *)
LEMMA FactsTraced ==
    ASSUME NEW operation, NEW event,
           Len(operation.url) = 1, event.data.api_path = operation.url,
           event.data.transaction_id = None,
           \/ Told(event) = Facts(operation.data)
           \/ /\ Told(event) = [Facts(operation.data) EXCEPT !.subscription = None]
              /\ operation.url = <<"/subscriptions/v2/notify">>
              /\ Facts(operation.data).subscription
                    \in {None, operation.data.payment_flow.merchant_subscription_id}
    PROVE  Traces(operation, event)
  <1> DEFINE told == Told(event)
             facts == Facts(operation.data)
  <1>1. EventIds(event) = {told.order, told.refund, told.original, told.subscription, None}
    BY DEF EventIds, Told
  <1>2. RequestIds(operation) = {facts.order, facts.refund, facts.original, facts.subscription}
    BY DEF RequestIds, Facts
  <1>3. /\ event.data.amount = told.amount
        /\ event.data.expire_after = told.expire_after
        /\ event.data.order_expire_at = told.expire_at
    BY DEF Told
  <1>4. /\ facts.amount = Attr(operation.data, "amount")
        /\ facts.expire_after = Attr(operation.data, "expire_after")
        /\ facts.expire_at = Attr(operation.data, "expire_at")
    BY DEF Facts
  <1>5. /\ told.order = facts.order /\ told.refund = facts.refund
        /\ told.original = facts.original /\ told.amount = facts.amount
        /\ told.expire_after = facts.expire_after /\ told.expire_at = facts.expire_at
        /\ \/ told.subscription = facts.subscription
           \/ /\ told.subscription = None
              /\ operation.url = <<"/subscriptions/v2/notify">>
              /\ facts.subscription
                    \in {None, operation.data.payment_flow.merchant_subscription_id}
    BY DEF Facts, Told
  <1> HIDE DEF told, facts
  <1>6. EventIds(event) \ {None} \subseteq RequestIds(operation)
    BY <1>1, <1>2, <1>5
  <1>7. LET unmentioned == RequestIds(operation) \ (EventIds(event) \cup {None})
        IN  unmentioned # {} =>
              /\ operation.url = <<"/subscriptions/v2/notify">>
              /\ unmentioned = {operation.data.payment_flow.merchant_subscription_id}
    BY <1>1, <1>2, <1>5
  <1> QED
    BY <1>3, <1>4, <1>5, <1>6, <1>7 DEF Traces

(* An event that tells the id in the url of a request without a body can be *)
(* matched with it.                                                         *)
LEMMA LookupTraced ==
    ASSUME NEW operation, NEW event, NEW a, NEW id, NEW b,
           operation.data = None, operation.url = <<a, id, b>>,
           event.data.api_path = operation.url,
           EventIds(event) \ {None} = {id} \ {None},
           event.data.amount = None, event.data.expire_after = None,
           event.data.order_expire_at = None
    PROVE  Traces(operation, event)
  <1>1. \A f : Attr(operation.data, f) = None
    BY DEF Attr
  <1>2. Attr(Attr(operation.data, "payment_flow"), "merchant_subscription_id") = None
    BY DEF Attr
  <1>3. Len(operation.url) > 1 /\ operation.url[2] = id
    OBVIOUS
  <1>4. RequestIds(operation) = {id, None}
    BY <1>1, <1>2, <1>3 DEF RequestIds
  <1> QED
    BY <1>1, <1>4 DEF Traces

-----------------------------------------------------------------------------
(* to_json leaves every field as it is, but for the operating system and    *)
(* login details that were not given.                                       *)
LEMMA JsonField ==
    ASSUME NoneIsNoDict, NEW request,
           NEW f, f \notin {"device_os", "prefill_user_login_details"}
    PROVE  Attr(to_json(request), f) = IF f \in DOMAIN request THEN request[f] ELSE None
  <1>1. to_json(request) # None
    BY DEF to_json, NoneIsNoDict
  <1>2. f \in DOMAIN to_json(request) <=> f \in DOMAIN request
    BY DEF to_json
  <1>3. f \in DOMAIN request => to_json(request)[f] = request[f]
    BY DEF to_json
  <1> QED
    BY <1>1, <1>2, <1>3 DEF Attr

PgFields == {"merchant_order_id", "amount", "meta_info", "payment_flow", "device_context",
             "device_os", "expire_after", "expire_at"}

(* The subscription a payment flow names. *)
FlowSubscription(flow) == Attr(flow, "merchant_subscription_id")

(* The facts of a request with the fields of PgPaymentRequest. *)
LEMMA PgFacts ==
    ASSUME NoneIsNoDict, NEW request, DOMAIN request = PgFields
    PROVE  Facts(to_json(request)) =
              [order |-> request.merchant_order_id, refund |-> None, original |-> None,
               subscription |-> FlowSubscription(request.payment_flow),
               amount |-> request.amount, expire_after |-> request.expire_after,
               expire_at |-> request.expire_at]
  <1> DEFINE data == to_json(request)
  <1>1. /\ Attr(data, "merchant_order_id") = request.merchant_order_id
        /\ Attr(data, "merchant_refund_id") = None
        /\ Attr(data, "original_merchant_order_id") = None
        /\ Attr(data, "payment_flow") = request.payment_flow
        /\ Attr(data, "amount") = request.amount
        /\ Attr(data, "expire_after") = request.expire_after
        /\ Attr(data, "expire_at") = request.expire_at
    BY JsonField DEF PgFields
  <1> HIDE DEF data
  <1> QED
    BY <1>1 DEF Facts, data, FlowSubscription

(* A request for a payment names no subscription and no date. *)
LEMMA PayFields ==
    ASSUME NEW request,
           CardRequest(request) \/ CardlessRequest(request) \/ Flowlessly(request)
    PROVE  /\ DOMAIN request = PgFields
           /\ request.expire_at = None
           /\ FlowSubscription(request.payment_flow) = None
  <1>1. \E flow :
          /\ DOMAIN request = PgFields /\ request.expire_at = None
          /\ request.payment_flow = flow
          /\ flow = None \/ \E mode, urls : flow = PgPaymentFlow(mode, urls)
    <2>1. CASE CardRequest(request)
      <3>1. PICK m, a, i, auth, card, url, user, e :
              \/ request = build_card_pay_request(Order(m, a, i), auth, card, url, user, e)
              \/ request = build_token_pay_request(Order(m, a, i), auth, card, url, user, e)
        BY <2>1 DEF CardRequest
      <3>2. CASE request = build_card_pay_request(Order(m, a, i), auth, card, url, user, e)
        BY <3>2 DEF build_card_pay_request, PgPaymentRequest, With, Order, PgFields
      <3>3. CASE request = build_token_pay_request(Order(m, a, i), auth, card, url, user, e)
        BY <3>3 DEF build_token_pay_request, PgPaymentRequest, With, Order, PgFields
      <3> QED
        BY <3>1, <3>2, <3>3
    <2>2. CASE CardlessRequest(request)
      <3>1. PICK m, a, i, x, y, z, e :
              LET o == Order(m, a, i)
              IN  \/ request = build_upi_intent_pay_request(o, x, y, z, e)
                  \/ request = build_upi_collect_pay_via_vpa_request(o, x, y, e, z)
                  \/ request = build_upi_collect_pay_via_phone_number_request(o, x, y, e, z)
                  \/ request = build_upi_qr_pay_request(o, e)
                  \/ request = build_net_banking_pay_request(o, x, y, z, e)
        BY <2>2 DEF CardlessRequest
      <3>2. CASE request = build_upi_intent_pay_request(Order(m, a, i), x, y, z, e)
        BY <3>2 DEF build_upi_intent_pay_request, PgPaymentRequest, With, Order, PgFields
      <3>3. CASE request = build_upi_collect_pay_via_vpa_request(Order(m, a, i), x, y, e, z)
        BY <3>3 DEF build_upi_collect_pay_via_vpa_request, PgPaymentRequest, With, Order,
                    PgFields
      <3>4. CASE request
                   = build_upi_collect_pay_via_phone_number_request(Order(m, a, i), x, y, e, z)
        BY <3>4 DEF build_upi_collect_pay_via_phone_number_request, PgPaymentRequest, With,
                    Order, PgFields
      <3>5. CASE request = build_upi_qr_pay_request(Order(m, a, i), e)
        BY <3>5 DEF build_upi_qr_pay_request, PgPaymentRequest, With, Order, PgFields
      <3>6. CASE request = build_net_banking_pay_request(Order(m, a, i), x, y, z, e)
        BY <3>6 DEF build_net_banking_pay_request, PgPaymentRequest, With, Order, PgFields
      <3> QED
        BY <3>1, <3>2, <3>3, <3>4, <3>5, <3>6
    <2>3. CASE Flowlessly(request)
      BY <2>3 DEF Flowlessly, PgPaymentRequest, With, Order, PgFields
    <2> QED
      BY <2>1, <2>2, <2>3
  <1> QED
    BY <1>1 DEF FlowSubscription, Attr, PgPaymentFlow

(* A request that sets up a subscription names it in its flow, if any. *)
LEMMA SetupFields ==
    ASSUME NoneIsNoDict, NEW request, SetupRequest(request) \/ Flowlessly(request)
    PROVE  /\ DOMAIN request = PgFields
           /\ request.expire_after = None
           /\ \/ request.payment_flow = None
              \/ /\ request.payment_flow # None
                 /\ "merchant_subscription_id" \in DOMAIN request.payment_flow
                 /\ Attr(request.payment_flow, "type") = "SUBSCRIPTION_SETUP"
  <1>1. CASE SetupRequest(request)
    <2>1. PICK m, a, i, id, terms, x, y, z, end, order_end :
            LET o == Order(m, a, i)
            IN  \/ request = build_subscription_setup_upi_intent(
                                o, id, terms, x, y, z, order_end, end)
                \/ request = build_subscription_setup_upi_collect(
                                o, id, terms, x, y, end, order_end)
      BY <1>1 DEF SetupRequest
    <2>2. /\ DOMAIN request = PgFields /\ request.expire_after = None
          /\ \E mode : request.payment_flow = SubscriptionSetupPaymentFlow(id, terms, end, mode)
      <3>1. CASE request = build_subscription_setup_upi_intent(
                              Order(m, a, i), id, terms, x, y, z, order_end, end)
        BY <3>1 DEF build_subscription_setup_upi_intent, PgPaymentRequest, With, Order, PgFields
      <3>2. CASE request = build_subscription_setup_upi_collect(
                              Order(m, a, i), id, terms, x, y, end, order_end)
        BY <3>2 DEF build_subscription_setup_upi_collect, PgPaymentRequest, With, Order, PgFields
      <3> QED
        BY <2>1, <3>1, <3>2
    <2>3. PICK mode : request.payment_flow = SubscriptionSetupPaymentFlow(id, terms, end, mode)
      BY <2>2
    <2>4. /\ SubscriptionSetupPaymentFlow(id, terms, end, mode) # None
          /\ "merchant_subscription_id"
                \in DOMAIN SubscriptionSetupPaymentFlow(id, terms, end, mode)
          /\ Attr(SubscriptionSetupPaymentFlow(id, terms, end, mode), "type")
                = "SUBSCRIPTION_SETUP"
      BY DEF SubscriptionSetupPaymentFlow, NoneIsNoDict, Attr
    <2> QED
      BY <2>2, <2>3, <2>4
  <1>2. CASE Flowlessly(request)
    BY <1>2 DEF Flowlessly, PgPaymentRequest, With, Order, PgFields
  <1> QED
    BY <1>1, <1>2

(* A request that announces a redemption names the subscription likewise. *)
LEMMA NotifyFields ==
    ASSUME NoneIsNoDict, NEW request, NotifyRequest(request) \/ Flowlessly(request)
    PROVE  /\ DOMAIN request = PgFields
           /\ request.expire_after = None
           /\ \/ request.payment_flow = None
              \/ /\ request.payment_flow # None
                 /\ "merchant_subscription_id" \in DOMAIN request.payment_flow
  <1>1. CASE NotifyRequest(request)
    <2>1. PICK m, a, i, id, retry, auto_debit, expire_at :
            request = build_subscription_notify_request(
                          Order(m, a, i), id, retry, auto_debit, expire_at)
      BY <1>1 DEF NotifyRequest
    <2> DEFINE flow == SubscriptionRedemptionPaymentFlow(
                           "SUBSCRIPTION_REDEMPTION", id, retry, auto_debit)
    <2>2. /\ DOMAIN request = PgFields /\ request.expire_after = None
          /\ request.payment_flow = flow
      BY <2>1 DEF build_subscription_notify_request, PgPaymentRequest, With, Order, PgFields
    <2>3. flow # None /\ "merchant_subscription_id" \in DOMAIN flow
      BY DEF SubscriptionRedemptionPaymentFlow, NoneIsNoDict
    <2> HIDE DEF flow
    <2> QED
      BY <2>2, <2>3
  <1>2. CASE Flowlessly(request)
    BY <1>2 DEF Flowlessly, PgPaymentRequest, With, Order, PgFields
  <1> QED
    BY <1>1, <1>2
-----------------------------------------------------------------------------
(* The builders that take a request.                                        *)

(* The event of a custom checkout payment. *)
LEMMA PayTold ==
    ASSUME NEW state, NEW name, NEW request, NEW url
    PROVE  LET event == build_custom_checkout_pay_event(state, name, request, url)
           IN  /\ Told(event) = [order |-> request.merchant_order_id, refund |-> None,
                                 original |-> None, subscription |-> None,
                                 amount |-> request.amount,
                                 expire_after |-> request.expire_after, expire_at |-> None]
               /\ event.data.api_path = url /\ event.data.transaction_id = None
  BY DEF build_custom_checkout_pay_event, Told, BaseEvent, EventData

(* The event of a standard checkout payment. *)
LEMMA CheckoutTold ==
    ASSUME NEW state, NEW name, NEW request, NEW url
    PROVE  LET event == build_standard_checkout_pay_event(state, name, request, url)
           IN  /\ Told(event) = [order |-> request.merchant_order_id, refund |-> None,
                                 original |-> None, subscription |-> None,
                                 amount |-> request.amount,
                                 expire_after |-> request.expire_after, expire_at |-> None]
               /\ event.data.api_path = url /\ event.data.transaction_id = None
  BY DEF build_standard_checkout_pay_event, Told, BaseEvent, EventData

(* The event of an order that is created for the SDK of an app. *)
LEMMA SdkOrderTold ==
    ASSUME NEW state, NEW name, NEW request, NEW flow_type, NEW url
    PROVE  LET event == build_create_sdk_order_event(state, name, request, flow_type, url)
           IN  /\ Told(event) = [order |-> request.merchant_order_id, refund |-> None,
                                 original |-> None, subscription |-> None,
                                 amount |-> request.amount,
                                 expire_after |-> request.expire_after, expire_at |-> None]
               /\ event.data.api_path = url /\ event.data.transaction_id = None
  BY DEF build_create_sdk_order_event, Told, BaseEvent, EventData

(* The event of a subscription that is set up. *)
LEMMA SetupTold ==
    ASSUME NoneIsNoTag, NEW state, NEW name, NEW request, NEW url,
           \/ request.payment_flow = None
           \/ /\ request.payment_flow # None
              /\ "merchant_subscription_id" \in DOMAIN request.payment_flow
              /\ Attr(request.payment_flow, "type") = "SUBSCRIPTION_SETUP"
    PROVE  LET event == build_subscription_setup_event(state, name, request, url)
           IN  /\ Told(event) = [order |-> request.merchant_order_id, refund |-> None,
                                 original |-> None,
                                 subscription |-> FlowSubscription(request.payment_flow),
                                 amount |-> request.amount,
                                 expire_after |-> None, expire_at |-> request.expire_at]
               /\ event.data.api_path = url /\ event.data.transaction_id = None
  <1>1. CASE request.payment_flow = None
    <2>1. Attr(request.payment_flow, "type") = None
      BY <1>1 DEF Attr
    <2>2. Attr(request.payment_flow, "type") # "SUBSCRIPTION_SETUP"
      BY <2>1 DEF NoneIsNoTag
    <2>3. FlowSubscription(request.payment_flow) = None
      BY <1>1 DEF FlowSubscription, Attr
    <2> QED
      BY <2>2, <2>3 DEF build_subscription_setup_event, Told, BaseEvent, EventData
  <1>2. CASE /\ request.payment_flow # None
             /\ "merchant_subscription_id" \in DOMAIN request.payment_flow
             /\ Attr(request.payment_flow, "type") = "SUBSCRIPTION_SETUP"
    <2>1. FlowSubscription(request.payment_flow)
            = request.payment_flow.merchant_subscription_id
      BY <1>2 DEF FlowSubscription, Attr
    <2> QED
      BY <1>2, <2>1 DEF build_subscription_setup_event, Told, BaseEvent, EventData
  <1> QED
    BY <1>1, <1>2

(* The event of a redemption that is announced leaves out the subscription. *)
LEMMA NotifyTold ==
    ASSUME NEW state, NEW name, NEW request, NEW url, request.payment_flow # None
    PROVE  LET event == build_subscription_notify_event(state, name, request, url)
           IN  /\ Told(event) = [order |-> request.merchant_order_id, refund |-> None,
                                 original |-> None, subscription |-> None,
                                 amount |-> request.amount,
                                 expire_after |-> None, expire_at |-> request.expire_at]
               /\ event.data.api_path = url /\ event.data.transaction_id = None
  BY DEF build_subscription_notify_event, SubscriptionRedemptionPaymentFlow,
         Told, BaseEvent, EventData

(* The facts of a request for an order, which has neither subscription nor   *)
(* date of expiry.                                                          *)
LEMMA CheckoutFacts ==
    ASSUME NoneIsNoDict, NEW request, CheckoutRequest(request)
    PROVE  Facts(to_json(request)) =
              [order |-> request.merchant_order_id, refund |-> None, original |-> None,
               subscription |-> None, amount |-> request.amount,
               expire_after |-> request.expire_after, expire_at |-> None]
  <1> DEFINE data == to_json(request)
             common == {"merchant_order_id", "amount", "meta_info", "payment_flow",
                        "expire_after"}
  <1>1. /\ DOMAIN request \in {common, common \cup {"prefill_user_login_details"}}
        /\ \E message, urls, modes :
              request.payment_flow = PgCheckoutPaymentFlow(message, urls, modes)
    <2>1. PICK m, a, i, x, y, z, u, v :
            LET o == Order(m, a, i)
            IN  \/ request = StandardCheckoutPayRequest_build_request(o, x, y, z, u, v)
                \/ request = build_standard_checkout_request(o, x, y, z)
                \/ request = build_custom_checkout_request(o, x)
      BY DEF CheckoutRequest
    <2>2. CASE request
                 = StandardCheckoutPayRequest_build_request(Order(m, a, i), x, y, z, u, v)
      BY <2>2 DEF StandardCheckoutPayRequest_build_request, With, Order
    <2>3. CASE request = build_standard_checkout_request(Order(m, a, i), x, y, z)
      BY <2>3 DEF build_standard_checkout_request, With, Order
    <2>4. CASE request = build_custom_checkout_request(Order(m, a, i), x)
      BY <2>4 DEF build_custom_checkout_request, With, Order
    <2> QED
      BY <2>1, <2>2, <2>3, <2>4
  <1>2. /\ Attr(data, "merchant_order_id") = request.merchant_order_id
        /\ Attr(data, "merchant_refund_id") = None
        /\ Attr(data, "original_merchant_order_id") = None
        /\ Attr(data, "payment_flow") = request.payment_flow
        /\ Attr(data, "amount") = request.amount
        /\ Attr(data, "expire_after") = request.expire_after
        /\ Attr(data, "expire_at") = None
    BY <1>1, JsonField
  <1>3. Attr(request.payment_flow, "merchant_subscription_id") = None
    BY <1>1 DEF Attr, PgCheckoutPaymentFlow
  <1> HIDE DEF data
  <1> QED
    BY <1>2, <1>3 DEF Facts, data

(* The event of a refund names the refund and the order it belongs to. *)
LEMMA RefundTraced ==
    ASSUME NoneIsNoDict, NEW operation, NEW request, RefundRequest(request),
           NEW state, NEW name, NEW flow_type,
           Len(operation.url) = 1, operation.data = to_json(request)
    PROVE  Traces(operation,
                  build_refund_event(state, name, request, flow_type, operation.url))
  <1> DEFINE event == build_refund_event(state, name, request, flow_type, operation.url)
             data == operation.data
  <1>1. DOMAIN request = {"merchant_refund_id", "amount", "original_merchant_order_id"}
    BY DEF RefundRequest, build_refund_request
  <1>2. /\ Attr(data, "merchant_order_id") = None
        /\ Attr(data, "merchant_refund_id") = request.merchant_refund_id
        /\ Attr(data, "original_merchant_order_id") = request.original_merchant_order_id
        /\ Attr(data, "payment_flow") = None
        /\ Attr(data, "amount") = request.amount
        /\ Attr(data, "expire_after") = None
        /\ Attr(data, "expire_at") = None
    BY <1>1, JsonField
  <1>3. /\ event.merchant_order_id = request.original_merchant_order_id
        /\ event.data.api_path = operation.url
        /\ event.data.merchant_refund_id = request.merchant_refund_id
        /\ event.data.original_merchant_order_id = request.original_merchant_order_id
        /\ event.data.transaction_id = None /\ event.data.merchant_subscription_id = None
        /\ event.data.amount = request.amount
        /\ event.data.expire_after = None /\ event.data.order_expire_at = None
    BY DEF build_refund_event, BaseEvent, EventData
  <1> HIDE DEF event, data
  <1>4. EventIds(event) = {request.merchant_refund_id, request.original_merchant_order_id, None}
    BY <1>3 DEF EventIds
  <1>5. RequestIds(operation)
          = {request.merchant_refund_id, request.original_merchant_order_id, None}
    BY <1>2 DEF RequestIds, Attr, data
  <1>6. Traces(operation, event)
    BY <1>2, <1>3, <1>4, <1>5 DEF Traces, data
  <1> QED
    BY <1>6 DEF event
-----------------------------------------------------------------------------
(* Both events of an operation can be matched with its request, and its     *)
(* success is reported unless it announces a redemption without a flow.     *)
EventsTrace(operation) ==
    \A event \in {operation.success, operation.failure} :
        event # None => Traces(operation, event)

SuccessReported(operation) ==
    operation.success = None
        => /\ operation.url = <<"/subscriptions/v2/notify">>
           /\ operation.data.payment_flow = None

(* An operation has events of its outcomes, and misses one only if its      *)
(* request has no payment flow: what OperationsOK asks for.                 *)
OutcomesTold(operation) ==
    /\ Tells(operation.success, "SUCCESS")
    /\ Tells(operation.failure, "FAILED")
    /\ None \in {operation.success, operation.failure}
          => Attr(operation.data, "payment_flow") = None

(* None is not an event. *)
LEMMA EventIsSomething ==
    ASSUME NoneIsNoDict
    PROVE  \A name, order, data : BaseEvent(name, order, data) # None
  BY DEF BaseEvent, NoneIsNoDict

(* An event made of the fields every event has tells its outcome. *)
LEMMA EventTells ==
    ASSUME NEW state, NEW name, NEW order, NEW data,
           DOMAIN data = DOMAIN EventData(None, None, None),
           data = [f \in DOMAIN data |-> data[f]], data.event_state = state
    PROVE  Tells(BaseEvent(name, order, data), state)
  <1> DEFINE event == BaseEvent(name, order, data)
  <1>1. event.event_name = name /\ event.merchant_order_id = order /\ event.data = data
    BY DEF BaseEvent
  <1>2. event = BaseEvent(event.event_name, event.merchant_order_id, event.data)
    BY <1>1
  <1> HIDE DEF event
  <1>3. event.data = [f \in DOMAIN EventData(None, None, None) |-> event.data[f]]
    BY <1>1
  <1> QED
    BY <1>1, <1>2, <1>3 DEF Tells, event

(* The builders put the outcome they are given into the event they build. *)
LEMMA BuildersTell ==
    ASSUME NEW state, NEW name, NEW request, NEW id, NEW flow_type, NEW url
    PROVE  /\ Tells(build_standard_checkout_pay_event(state, name, request, url), state)
           /\ Tells(build_custom_checkout_pay_event(state, name, request, url), state)
           /\ Tells(build_create_sdk_order_event(state, name, request, flow_type, url), state)
           /\ Tells(build_refund_event(state, name, request, flow_type, url), state)
           /\ Tells(build_subscription_setup_event(state, name, request, url), state)
           /\ Tells(build_subscription_notify_event(state, name, request, url), state)
           /\ Tells(build_subscription_redeem_event(state, name, id, url), state)
           /\ Tells(build_order_status_event(state, name, id, flow_type, url), state)
           /\ Tells(build_refund_status_event(state, name, id, flow_type, url), state)
           /\ Tells(build_transaction_status_event(state, name, id, flow_type, url), state)
           /\ Tells(build_subscription_event(state, name, id, url), state)
  <1>1. Tells(build_standard_checkout_pay_event(state, name, request, url), state)
    BY EventTells DEF build_standard_checkout_pay_event, EventData
  <1>2. Tells(build_custom_checkout_pay_event(state, name, request, url), state)
    BY EventTells DEF build_custom_checkout_pay_event, EventData
  <1>3. Tells(build_create_sdk_order_event(state, name, request, flow_type, url), state)
    BY EventTells DEF build_create_sdk_order_event, EventData
  <1>4. Tells(build_refund_event(state, name, request, flow_type, url), state)
    BY EventTells DEF build_refund_event, EventData
  <1>5. Tells(build_subscription_setup_event(state, name, request, url), state)
    <2>1. CASE Attr(request.payment_flow, "type") = "SUBSCRIPTION_SETUP"
      <3> DEFINE flow == request.payment_flow
                 data == [EventData(state, "SUBSCRIPTION", url) EXCEPT
                             !.order_expire_at = request.expire_at,
                             !.device_context = request.device_context,
                             !.amount = request.amount]
                 whole == [data EXCEPT
                              !.payment_instrument = Attr(flow.payment_mode, "type"),
                              !.target_app = Attr(flow.payment_mode, "target_app"),
                              !.subscription_expire_at = flow.expire_at,
                              !.merchant_subscription_id = flow.merchant_subscription_id]
      <3>1. build_subscription_setup_event(state, name, request, url)
              = BaseEvent(name, request.merchant_order_id, whole)
        BY <2>1 DEF build_subscription_setup_event
      <3>2. /\ DOMAIN data = DOMAIN EventData(None, None, None)
            /\ data = [f \in DOMAIN data |-> data[f]] /\ data.event_state = state
        BY DEF EventData
      <3> HIDE DEF data
      <3>3. DOMAIN whole = DOMAIN data
        OBVIOUS
      <3>4. whole = [f \in DOMAIN whole |-> whole[f]]
        OBVIOUS
      <3>5. "event_state" \in DOMAIN data
        BY <3>2 DEF EventData
      <3>6. whole.event_state = state
        BY <3>2, <3>5
      <3> HIDE DEF whole
      <3> QED
        BY <3>1, <3>2, <3>3, <3>4, <3>6, EventTells
    <2>2. CASE Attr(request.payment_flow, "type") # "SUBSCRIPTION_SETUP"
      BY <2>2, EventTells DEF build_subscription_setup_event, EventData
    <2> QED
      BY <2>1, <2>2
  <1>6. Tells(build_subscription_notify_event(state, name, request, url), state)
    <2>1. CASE request.payment_flow = None
      BY <2>1 DEF build_subscription_notify_event, Tells
    <2>2. CASE request.payment_flow # None
      BY <2>2, EventTells DEF build_subscription_notify_event, EventData
    <2> QED
      BY <2>1, <2>2
  <1>7. Tells(build_subscription_redeem_event(state, name, id, url), state)
    BY EventTells DEF build_subscription_redeem_event, EventData
  <1>8. Tells(build_order_status_event(state, name, id, flow_type, url), state)
    BY EventTells DEF build_order_status_event, EventData
  <1>9. Tells(build_refund_status_event(state, name, id, flow_type, url), state)
    BY EventTells DEF build_refund_status_event, EventData
  <1>10. Tells(build_transaction_status_event(state, name, id, flow_type, url), state)
    BY EventTells DEF build_transaction_status_event, EventData
  <1>11. Tells(build_subscription_event(state, name, id, url), state)
    BY EventTells DEF build_subscription_event, EventData
  <1> QED
    BY <1>1, <1>2, <1>3, <1>4, <1>5, <1>6, <1>7, <1>8, <1>9, <1>10, <1>11

(* CustomCheckoutClient.pay. *)
LEMMA CustomPay ==
    ASSUME NoneIsNoDict, NEW request,
           CardRequest(request) \/ CardlessRequest(request) \/ Flowlessly(request)
    PROVE  /\ EventsTrace(Custom!pay(request)) /\ SuccessReported(Custom!pay(request))
           /\ OutcomesTold(Custom!pay(request))
  <1> DEFINE operation == Custom!pay(request)
  <1>1. Custom!to_json(request) = to_json(request)
    BY DEF Custom!to_json, to_json, Custom!Attr, Attr
  <1>2. operation.url = <<"/payments/v2/pay">> /\ operation.data = to_json(request)
    BY <1>1 DEF Custom!pay, Custom!Post, Custom!Operation, Custom!PAY_API
  <1>3. \E name, other :
           /\ operation.success = build_custom_checkout_pay_event("SUCCESS", name, request, operation.url)
           /\ operation.failure = build_custom_checkout_pay_event("FAILED", other, request, operation.url)
    <2>1. /\ operation.success = Custom!build_custom_checkout_pay_event(
                                    "SUCCESS", "PAY_SUCCESS", request, Custom!PAY_API)
          /\ operation.failure = Custom!build_custom_checkout_pay_event(
                                    "FAILED", "PAY_FAILED", request, Custom!PAY_API)
      BY DEF Custom!pay, Custom!Post, Custom!Operation
    <2>2. Custom!PAY_API = operation.url
      BY <1>2 DEF Custom!PAY_API
    <2>3. \A state, name, url :
             Custom!build_custom_checkout_pay_event(state, name, request, url)
                = build_custom_checkout_pay_event(state, name, request, url)
      BY DEF Custom!build_custom_checkout_pay_event, Custom!Attr,
             Custom!BaseEvent, Custom!EventData, build_custom_checkout_pay_event,
             Attr, BaseEvent, EventData
    <2> HIDE DEF operation
    <2> QED
      BY <2>1, <2>2, <2>3
  <1>4. Facts(operation.data) =
            [order |-> request.merchant_order_id, refund |-> None, original |-> None,
             subscription |-> None, amount |-> request.amount,
             expire_after |-> request.expire_after, expire_at |-> None]
    BY <1>2, PayFields, PgFacts
  <1>5. Len(operation.url) = 1
    BY <1>2
  <1> HIDE DEF operation
  <1>6. EventsTrace(operation)
    BY <1>3, <1>4, <1>5, PayTold, FactsTraced DEF EventsTrace
  <1>7. operation.success # None /\ operation.failure # None
    BY <1>3, EventIsSomething DEF build_custom_checkout_pay_event
  <1>8. SuccessReported(operation)
    BY <1>7 DEF SuccessReported
  <1>9. OutcomesTold(operation)
    BY <1>3, <1>7, BuildersTell DEF OutcomesTold
  <1> QED
    BY <1>6, <1>8, <1>9 DEF operation

(* SubscriptionClient.setup. *)
LEMMA SubscriptionSetup ==
    ASSUME NoneIsNoDict, NoneIsNoTag, NEW request,
           SetupRequest(request) \/ Flowlessly(request)
    PROVE  /\ EventsTrace(Subscription!setup(request)) /\ SuccessReported(Subscription!setup(request))
           /\ OutcomesTold(Subscription!setup(request))
  <1> DEFINE operation == Subscription!setup(request)
  <1>1. Subscription!to_json(request) = to_json(request)
    BY DEF Subscription!to_json, to_json, Subscription!Attr, Attr
  <1>2. operation.url = <<"/subscriptions/v2/setup">> /\ operation.data = to_json(request)
    BY <1>1 DEF Subscription!setup, Subscription!Versioned, Subscription!Post,
                Subscription!Operation, Subscription!SETUP_API
  <1>3. \E name, other :
           /\ operation.success = build_subscription_setup_event("SUCCESS", name, request, operation.url)
           /\ operation.failure = build_subscription_setup_event("FAILED", other, request, operation.url)
    <2>1. /\ operation.success = Subscription!build_subscription_setup_event(
                                    "SUCCESS", "SETUP_SUCCESS", request, Subscription!SETUP_API)
          /\ operation.failure = Subscription!build_subscription_setup_event(
                                    "FAILED", "SETUP_FAILED", request, Subscription!SETUP_API)
      BY DEF Subscription!setup, Subscription!Versioned, Subscription!Post, Subscription!Operation
    <2>2. Subscription!SETUP_API = operation.url
      BY <1>2 DEF Subscription!SETUP_API
    <2>3. \A state, name, url :
             Subscription!build_subscription_setup_event(state, name, request, url)
                = build_subscription_setup_event(state, name, request, url)
      BY DEF Subscription!build_subscription_setup_event, Subscription!Attr,
             Subscription!BaseEvent, Subscription!EventData, build_subscription_setup_event,
             Attr, BaseEvent, EventData
    <2> HIDE DEF operation
    <2> QED
      BY <2>1, <2>2, <2>3
  <1>4. Facts(operation.data) =
            [order |-> request.merchant_order_id, refund |-> None, original |-> None,
             subscription |-> FlowSubscription(request.payment_flow),
             amount |-> request.amount, expire_after |-> None,
             expire_at |-> request.expire_at]
    BY <1>2, SetupFields, PgFacts
  <1>5. Len(operation.url) = 1
    BY <1>2
  <1> HIDE DEF operation
  <1>6. \A state, name :
           LET event == build_subscription_setup_event(state, name, request, operation.url)
           IN  /\ Told(event) = Facts(operation.data)
               /\ event.data.api_path = operation.url /\ event.data.transaction_id = None
    BY <1>4, SetupFields, SetupTold
  <1>7. EventsTrace(operation)
    BY <1>3, <1>5, <1>6, FactsTraced DEF EventsTrace
  <1>8. operation.success # None /\ operation.failure # None
    BY <1>3, EventIsSomething DEF build_subscription_setup_event
  <1>9. SuccessReported(operation)
    BY <1>8 DEF SuccessReported
  <1>10. OutcomesTold(operation)
    BY <1>3, <1>8, BuildersTell DEF OutcomesTold
  <1> QED
    BY <1>7, <1>9, <1>10 DEF operation

(* SubscriptionClient.notify: its event leaves out the subscription, and is *)
(* not built without a flow.                                                *)
LEMMA SubscriptionNotify ==
    ASSUME NoneIsNoDict, NEW request, NotifyRequest(request) \/ Flowlessly(request)
    PROVE  /\ EventsTrace(Subscription!notify(request)) /\ SuccessReported(Subscription!notify(request))
           /\ OutcomesTold(Subscription!notify(request))
  <1> DEFINE operation == Subscription!notify(request)
  <1>1. Subscription!to_json(request) = to_json(request)
    BY DEF Subscription!to_json, to_json, Subscription!Attr, Attr
  <1>2. operation.url = <<"/subscriptions/v2/notify">> /\ operation.data = to_json(request)
    BY <1>1 DEF Subscription!notify, Subscription!Versioned, Subscription!Post,
                Subscription!Operation, Subscription!NOTIFY_API
  <1>3. \E name, other :
           /\ operation.success = build_subscription_notify_event("SUCCESS", name, request, operation.url)
           /\ operation.failure = build_subscription_notify_event("FAILED", other, request, operation.url)
    <2>1. /\ operation.success = Subscription!build_subscription_notify_event(
                                    "SUCCESS", "NOTIFY_SUCCESS", request, Subscription!NOTIFY_API)
          /\ operation.failure = Subscription!build_subscription_notify_event(
                                    "FAILED", "NOTIFY_FAILED", request, Subscription!NOTIFY_API)
      BY DEF Subscription!notify, Subscription!Versioned, Subscription!Post, Subscription!Operation
    <2>2. Subscription!NOTIFY_API = operation.url
      BY <1>2 DEF Subscription!NOTIFY_API
    <2>3. \A state, name, url :
             Subscription!build_subscription_notify_event(state, name, request, url)
                = build_subscription_notify_event(state, name, request, url)
      BY DEF Subscription!build_subscription_notify_event, 
             Subscription!SubscriptionRedemptionPaymentFlow,
             Subscription!BaseEvent, Subscription!EventData, build_subscription_notify_event,
             SubscriptionRedemptionPaymentFlow, BaseEvent, EventData
    <2> HIDE DEF operation
    <2> QED
      BY <2>1, <2>2, <2>3
  <1>4. Facts(operation.data) =
            [order |-> request.merchant_order_id, refund |-> None, original |-> None,
             subscription |-> FlowSubscription(request.payment_flow),
             amount |-> request.amount, expire_after |-> None,
             expire_at |-> request.expire_at]
    BY <1>2, NotifyFields, PgFacts
  <1>5. Len(operation.url) = 1
    BY <1>2
  <1>6. operation.data.payment_flow = request.payment_flow
    BY <1>2, NotifyFields DEF PgFields, to_json
  <1> HIDE DEF operation
  <1>7. CASE request.payment_flow = None
    <2>1. \A event \in {operation.success, operation.failure} : event = None
      BY <1>3, <1>7 DEF build_subscription_notify_event
    <2>2. EventsTrace(operation) /\ SuccessReported(operation)
      BY <1>2, <1>6, <1>7, <2>1 DEF EventsTrace, SuccessReported
    <2>3. Attr(operation.data, "payment_flow") = None
      BY <1>6, <1>7 DEF Attr
    <2>4. OutcomesTold(operation)
      BY <2>1, <2>3 DEF OutcomesTold, Tells
    <2> QED
      BY <2>2, <2>4 DEF operation
  <1>8. CASE request.payment_flow # None
    <2>1. FlowSubscription(request.payment_flow)
            = request.payment_flow.merchant_subscription_id
      BY <1>8, NotifyFields DEF FlowSubscription, Attr
    <2>2. \A state, name :
             LET event == build_subscription_notify_event(state, name, request, operation.url)
             IN  /\ Told(event) = [Facts(operation.data) EXCEPT !.subscription = None]
                 /\ event.data.api_path = operation.url /\ event.data.transaction_id = None
      BY <1>4, <1>8, NotifyTold
    <2>3. Facts(operation.data).subscription
            = operation.data.payment_flow.merchant_subscription_id
      BY <1>4, <1>6, <2>1
    <2>4. EventsTrace(operation)
      BY <1>2, <1>3, <1>5, <2>2, <2>3, FactsTraced DEF EventsTrace
    <2>5. operation.success # None /\ operation.failure # None
      BY <1>3, <1>8, EventIsSomething DEF build_subscription_notify_event
    <2>6. SuccessReported(operation)
      BY <2>5 DEF SuccessReported
    <2>7. OutcomesTold(operation)
      BY <1>3, <2>5, BuildersTell DEF OutcomesTold
    <2> QED
      BY <2>4, <2>6, <2>7 DEF operation
  <1> QED
    BY <1>7, <1>8
(* StandardCheckoutClient.pay. *)
LEMMA StandardPay ==
    ASSUME NoneIsNoDict, NEW request, CheckoutRequest(request)
    PROVE  /\ EventsTrace(Standard!pay(request)) /\ SuccessReported(Standard!pay(request))
           /\ OutcomesTold(Standard!pay(request))
  <1> DEFINE operation == Standard!pay(request)
  <1>1. Standard!to_json(request) = to_json(request)
    BY DEF Standard!to_json, to_json, Standard!Attr, Attr
  <1>2. operation.url = <<"/checkout/v2/pay">> /\ operation.data = to_json(request)
    BY <1>1 DEF Standard!pay, Standard!Post, Standard!Operation, Standard!PAY_API
  <1>3. \E name, other :
           /\ operation.success = build_standard_checkout_pay_event("SUCCESS", name, request, operation.url)
           /\ operation.failure = build_standard_checkout_pay_event("FAILED", other, request, operation.url)
    <2>1. /\ operation.success = Standard!build_standard_checkout_pay_event(
                                    "SUCCESS", "PAY_SUCCESS", request, Standard!PAY_API)
          /\ operation.failure = Standard!build_standard_checkout_pay_event(
                                    "FAILED", "PAY_FAILED", request, Standard!PAY_API)
      BY DEF Standard!pay, Standard!Post, Standard!Operation
    <2>2. Standard!PAY_API = operation.url
      BY <1>2 DEF Standard!PAY_API
    <2>3. \A state, name, url :
             Standard!build_standard_checkout_pay_event(state, name, request, url)
                = build_standard_checkout_pay_event(state, name, request, url)
      BY DEF Standard!build_standard_checkout_pay_event, Standard!BaseEvent,
             Standard!EventData, build_standard_checkout_pay_event, BaseEvent, EventData
    <2> HIDE DEF operation
    <2> QED
      BY <2>1, <2>2, <2>3
  <1>4. Facts(operation.data) =
            [order |-> request.merchant_order_id, refund |-> None, original |-> None,
             subscription |-> None, amount |-> request.amount,
             expire_after |-> request.expire_after, expire_at |-> None]
    BY <1>2, CheckoutFacts
  <1>5. Len(operation.url) = 1
    BY <1>2
  <1> HIDE DEF operation
  <1>6. EventsTrace(operation)
    BY <1>3, <1>4, <1>5, CheckoutTold, FactsTraced DEF EventsTrace
  <1>7. operation.success # None /\ operation.failure # None
    BY <1>3, EventIsSomething DEF build_standard_checkout_pay_event
  <1>8. SuccessReported(operation)
    BY <1>7 DEF SuccessReported
  <1>9. OutcomesTold(operation)
    BY <1>3, <1>7, BuildersTell DEF OutcomesTold
  <1> QED
    BY <1>6, <1>8, <1>9 DEF operation

(* StandardCheckoutClient.create_sdk_order. *)
LEMMA StandardSdkOrder ==
    ASSUME NoneIsNoDict, NEW request, CheckoutRequest(request)
    PROVE  /\ EventsTrace(Standard!create_sdk_order(request)) /\ SuccessReported(Standard!create_sdk_order(request))
           /\ OutcomesTold(Standard!create_sdk_order(request))
  <1> DEFINE operation == Standard!create_sdk_order(request)
  <1>1. Standard!to_json(request) = to_json(request)
    BY DEF Standard!to_json, to_json, Standard!Attr, Attr
  <1>2. operation.url = <<"/checkout/v2/sdk/order">> /\ operation.data = to_json(request)
    BY <1>1 DEF Standard!create_sdk_order, Standard!Post, Standard!Operation, Standard!CREATE_ORDER_API
  <1>3. \E name, other, flow_type :
           /\ operation.success = build_create_sdk_order_event("SUCCESS", name, request, flow_type, operation.url)
           /\ operation.failure = build_create_sdk_order_event("FAILED", other, request, flow_type, operation.url)
    <2>1. /\ operation.success = Standard!build_create_sdk_order_event(
                                    "SUCCESS", "CREATE_SDK_ORDER_SUCCESS", request, "PG_CHECKOUT", Standard!CREATE_ORDER_API)
          /\ operation.failure = Standard!build_create_sdk_order_event(
                                    "FAILED", "CREATE_SDK_ORDER_FAILED", request, "PG_CHECKOUT", Standard!CREATE_ORDER_API)
      BY DEF Standard!create_sdk_order, Standard!Post, Standard!Operation
    <2>2. Standard!CREATE_ORDER_API = operation.url
      BY <1>2 DEF Standard!CREATE_ORDER_API
    <2>3. \A state, name, flow_type, url :
             Standard!build_create_sdk_order_event(state, name, request, flow_type, url)
                = build_create_sdk_order_event(state, name, request, flow_type, url)
      BY DEF Standard!build_create_sdk_order_event, Standard!BaseEvent,
             Standard!EventData, build_create_sdk_order_event, BaseEvent, EventData
    <2> HIDE DEF operation
    <2> QED
      BY <2>1, <2>2, <2>3
  <1>4. Facts(operation.data) =
            [order |-> request.merchant_order_id, refund |-> None, original |-> None,
             subscription |-> None, amount |-> request.amount,
             expire_after |-> request.expire_after, expire_at |-> None]
    BY <1>2, CheckoutFacts
  <1>5. Len(operation.url) = 1
    BY <1>2
  <1> HIDE DEF operation
  <1>6. EventsTrace(operation)
    BY <1>3, <1>4, <1>5, SdkOrderTold, FactsTraced DEF EventsTrace
  <1>7. operation.success # None /\ operation.failure # None
    BY <1>3, EventIsSomething DEF build_create_sdk_order_event
  <1>8. SuccessReported(operation)
    BY <1>7 DEF SuccessReported
  <1>9. OutcomesTold(operation)
    BY <1>3, <1>7, BuildersTell DEF OutcomesTold
  <1> QED
    BY <1>6, <1>8, <1>9 DEF operation

(* CustomCheckoutClient.create_sdk_order. *)
LEMMA CustomSdkOrder ==
    ASSUME NoneIsNoDict, NEW request, CheckoutRequest(request)
    PROVE  /\ EventsTrace(Custom!create_sdk_order(request)) /\ SuccessReported(Custom!create_sdk_order(request))
           /\ OutcomesTold(Custom!create_sdk_order(request))
  <1> DEFINE operation == Custom!create_sdk_order(request)
  <1>1. Custom!to_json(request) = to_json(request)
    BY DEF Custom!to_json, to_json, Custom!Attr, Attr
  <1>2. operation.url = <<"/payments/v2/sdk/order">> /\ operation.data = to_json(request)
    BY <1>1 DEF Custom!create_sdk_order, Custom!Post, Custom!Operation, Custom!CREATE_ORDER_API
  <1>3. \E name, other, flow_type :
           /\ operation.success = build_create_sdk_order_event("SUCCESS", name, request, flow_type, operation.url)
           /\ operation.failure = build_create_sdk_order_event("FAILED", other, request, flow_type, operation.url)
    <2>1. /\ operation.success = Custom!build_create_sdk_order_event(
                                    "SUCCESS", "CREATE_SDK_ORDER_SUCCESS", request, "PG", Custom!CREATE_ORDER_API)
          /\ operation.failure = Custom!build_create_sdk_order_event(
                                    "FAILED", "CREATE_SDK_ORDER_FAILED", request, "PG", Custom!CREATE_ORDER_API)
      BY DEF Custom!create_sdk_order, Custom!Post, Custom!Operation
    <2>2. Custom!CREATE_ORDER_API = operation.url
      BY <1>2 DEF Custom!CREATE_ORDER_API
    <2>3. \A state, name, flow_type, url :
             Custom!build_create_sdk_order_event(state, name, request, flow_type, url)
                = build_create_sdk_order_event(state, name, request, flow_type, url)
      BY DEF Custom!build_create_sdk_order_event, Custom!BaseEvent,
             Custom!EventData, build_create_sdk_order_event, BaseEvent, EventData
    <2> HIDE DEF operation
    <2> QED
      BY <2>1, <2>2, <2>3
  <1>4. Facts(operation.data) =
            [order |-> request.merchant_order_id, refund |-> None, original |-> None,
             subscription |-> None, amount |-> request.amount,
             expire_after |-> request.expire_after, expire_at |-> None]
    BY <1>2, CheckoutFacts
  <1>5. Len(operation.url) = 1
    BY <1>2
  <1> HIDE DEF operation
  <1>6. EventsTrace(operation)
    BY <1>3, <1>4, <1>5, SdkOrderTold, FactsTraced DEF EventsTrace
  <1>7. operation.success # None /\ operation.failure # None
    BY <1>3, EventIsSomething DEF build_create_sdk_order_event
  <1>8. SuccessReported(operation)
    BY <1>7 DEF SuccessReported
  <1>9. OutcomesTold(operation)
    BY <1>3, <1>7, BuildersTell DEF OutcomesTold
  <1> QED
    BY <1>6, <1>8, <1>9 DEF operation

(* The refunds of the three clients, which differ in their flow type. *)
LEMMA Refunds ==
    ASSUME NoneIsNoDict, NEW request, RefundRequest(request),
           NEW operation \in {Standard!refund(request), Custom!refund(request),
                              Subscription!refund(request)}
    PROVE  /\ EventsTrace(operation) /\ SuccessReported(operation)
           /\ OutcomesTold(operation)
  <1>1. operation.url = <<"/payments/v2/refund">> /\ operation.data = to_json(request)
    <2>1. CASE operation = Standard!refund(request)
      <3>1. Standard!to_json(request) = to_json(request)
        BY DEF Standard!to_json, to_json, Standard!Attr, Attr
      <3> QED
        BY <2>1, <3>1 DEF Standard!refund, Standard!REFUND_API,
                  Standard!Post, Standard!Operation
    <2>2. CASE operation = Custom!refund(request)
      <3>1. Custom!to_json(request) = to_json(request)
        BY DEF Custom!to_json, to_json, Custom!Attr, Attr
      <3> QED
        BY <2>2, <3>1 DEF Custom!refund, Custom!REFUND_API,
                  Custom!Post, Custom!Operation
    <2>3. CASE operation = Subscription!refund(request)
      <3>1. Subscription!to_json(request) = to_json(request)
        BY DEF Subscription!to_json, to_json, Subscription!Attr, Attr
      <3> QED
        BY <2>3, <3>1 DEF Subscription!refund, Subscription!REFUND_API,
                  Subscription!Versioned,
                  Subscription!Post, Subscription!Operation
    <2> QED
      BY <2>1, <2>2, <2>3
  <1>2. \E name, other, flow_type :
           /\ operation.success = build_refund_event("SUCCESS", name, request, flow_type, operation.url)
           /\ operation.failure = build_refund_event("FAILED", other, request, flow_type, operation.url)
    <2>1. CASE operation = Standard!refund(request)
      <3>1. /\ operation.success = Standard!build_refund_event("SUCCESS", "REFUND_SUCCESS",
                   request, "PG_CHECKOUT", Standard!REFUND_API)
            /\ operation.failure = Standard!build_refund_event("FAILED", "REFUND_FAILED",
                   request, "PG_CHECKOUT", Standard!REFUND_API)
        BY <2>1 DEF Standard!refund, Standard!Post, Standard!Operation
      <3>2. Standard!REFUND_API = operation.url
        BY <1>1 DEF Standard!REFUND_API
      <3>3. \A state, name, flow_type, url :
               Standard!build_refund_event(state, name, request, flow_type, url)
                  = build_refund_event(state, name, request, flow_type, url)
        BY DEF Standard!build_refund_event, Standard!BaseEvent, Standard!EventData,
               build_refund_event, BaseEvent, EventData
      <3> QED
        BY <3>1, <3>2, <3>3
    <2>2. CASE operation = Custom!refund(request)
      <3>1. /\ operation.success = Custom!build_refund_event("SUCCESS", "REFUND_SUCCESS",
                   request, "PG", Custom!REFUND_API)
            /\ operation.failure = Custom!build_refund_event("FAILED", "REFUND_FAILED",
                   request, "PG", Custom!REFUND_API)
        BY <2>2 DEF Custom!refund, Custom!Post, Custom!Operation
      <3>2. Custom!REFUND_API = operation.url
        BY <1>1 DEF Custom!REFUND_API
      <3>3. \A state, name, flow_type, url :
               Custom!build_refund_event(state, name, request, flow_type, url)
                  = build_refund_event(state, name, request, flow_type, url)
        BY DEF Custom!build_refund_event, Custom!BaseEvent, Custom!EventData,
               build_refund_event, BaseEvent, EventData
      <3> QED
        BY <3>1, <3>2, <3>3
    <2>3. CASE operation = Subscription!refund(request)
      <3>1. /\ operation.success = Subscription!build_refund_event("SUCCESS", "REFUND_SUCCESS",
                   request, "SUBSCRIPTION", Subscription!REFUND_API)
            /\ operation.failure = Subscription!build_refund_event("FAILED", "REFUND_FAILED",
                   request, "SUBSCRIPTION", Subscription!REFUND_API)
        BY <2>3 DEF Subscription!refund, Subscription!Versioned,
                  Subscription!Post, Subscription!Operation
      <3>2. Subscription!REFUND_API = operation.url
        BY <1>1 DEF Subscription!REFUND_API
      <3>3. \A state, name, flow_type, url :
               Subscription!build_refund_event(state, name, request, flow_type, url)
                  = build_refund_event(state, name, request, flow_type, url)
        BY DEF Subscription!build_refund_event, Subscription!BaseEvent, Subscription!EventData,
               build_refund_event, BaseEvent, EventData
      <3> QED
        BY <3>1, <3>2, <3>3
    <2> QED
      BY <2>1, <2>2, <2>3
  <1>3. Len(operation.url) = 1
    BY <1>1
  <1>4. EventsTrace(operation)
    BY <1>1, <1>2, <1>3, RefundTraced DEF EventsTrace
  <1>5. operation.success # None /\ operation.failure # None
    BY <1>2, EventIsSomething DEF build_refund_event
  <1>6. SuccessReported(operation)
    BY <1>5 DEF SuccessReported
  <1>7. OutcomesTold(operation)
    BY <1>2, <1>5, BuildersTell DEF OutcomesTold
  <1> QED
    BY <1>4, <1>6, <1>7

-----------------------------------------------------------------------------
(* An event that tells one id, and nothing else of a request. *)
TellsId(event, id, url) ==
    /\ event # None
    /\ event.data.api_path = url
    /\ EventIds(event) \ {None} = {id} \ {None}
    /\ event.data.amount = None
    /\ event.data.expire_after = None
    /\ event.data.order_expire_at = None

(* The builders that take an id. *)
LEMMA IdsTold ==
    ASSUME NoneIsNoDict, NEW state, NEW name, NEW id, NEW flow_type, NEW url
    PROVE  /\ TellsId(build_order_status_event(state, name, id, flow_type, url), id, url)
           /\ TellsId(build_refund_status_event(state, name, id, flow_type, url), id, url)
           /\ TellsId(build_transaction_status_event(state, name, id, flow_type, url), id, url)
           /\ TellsId(build_subscription_event(state, name, id, url), id, url)
  <1>1. TellsId(build_order_status_event(state, name, id, flow_type, url), id, url)
    <2> DEFINE event == build_order_status_event(state, name, id, flow_type, url)
    <2>1. /\ event # None /\ event.data.api_path = url
          /\ event.merchant_order_id = id /\ event.data.merchant_refund_id = None
          /\ event.data.original_merchant_order_id = None
          /\ event.data.transaction_id = None /\ event.data.merchant_subscription_id = None
          /\ event.data.amount = None /\ event.data.expire_after = None
          /\ event.data.order_expire_at = None
      BY EventIsSomething DEF build_order_status_event, BaseEvent, EventData
    <2> HIDE DEF event
    <2> QED
      BY <2>1 DEF TellsId, EventIds, event
  <1>2. TellsId(build_refund_status_event(state, name, id, flow_type, url), id, url)
    <2> DEFINE event == build_refund_status_event(state, name, id, flow_type, url)
    <2>1. /\ event # None /\ event.data.api_path = url
          /\ event.merchant_order_id = None
          /\ event.data.merchant_refund_id = id
          /\ event.data.original_merchant_order_id = None
          /\ event.data.transaction_id = None
          /\ event.data.merchant_subscription_id = None
          /\ event.data.amount = None /\ event.data.expire_after = None
          /\ event.data.order_expire_at = None
      BY EventIsSomething DEF build_refund_status_event, BaseEvent, EventData
    <2> HIDE DEF event
    <2> QED
      BY <2>1 DEF TellsId, EventIds, event
  <1>3. TellsId(build_transaction_status_event(state, name, id, flow_type, url), id, url)
    <2> DEFINE event == build_transaction_status_event(state, name, id, flow_type, url)
    <2>1. /\ event # None /\ event.data.api_path = url
          /\ event.merchant_order_id = None
          /\ event.data.merchant_refund_id = None
          /\ event.data.original_merchant_order_id = None
          /\ event.data.transaction_id = id
          /\ event.data.merchant_subscription_id = None
          /\ event.data.amount = None /\ event.data.expire_after = None
          /\ event.data.order_expire_at = None
      BY EventIsSomething DEF build_transaction_status_event, BaseEvent, EventData
    <2> HIDE DEF event
    <2> QED
      BY <2>1 DEF TellsId, EventIds, event
  <1>4. TellsId(build_subscription_event(state, name, id, url), id, url)
    <2> DEFINE event == build_subscription_event(state, name, id, url)
    <2>1. /\ event # None /\ event.data.api_path = url
          /\ event.merchant_order_id = None
          /\ event.data.merchant_refund_id = None
          /\ event.data.original_merchant_order_id = None
          /\ event.data.transaction_id = None
          /\ event.data.merchant_subscription_id = id
          /\ event.data.amount = None /\ event.data.expire_after = None
          /\ event.data.order_expire_at = None
      BY EventIsSomething DEF build_subscription_event, BaseEvent, EventData
    <2> HIDE DEF event
    <2> QED
      BY <2>1 DEF TellsId, EventIds, event
  <1> QED
    BY <1>1, <1>2, <1>3, <1>4

(* An operation that only looks something up, or cancels it, by its id. *)
LEMMA LookupsTraced ==
    ASSUME NEW operation, NEW a, NEW id, NEW b,
           operation.data = None, operation.url = <<a, id, b>>,
           \A event \in {operation.success, operation.failure} :
              TellsId(event, id, operation.url),
           Tells(operation.success, "SUCCESS"), Tells(operation.failure, "FAILED")
    PROVE  /\ EventsTrace(operation) /\ SuccessReported(operation)
           /\ OutcomesTold(operation)
  <1>1. ASSUME NEW event \in {operation.success, operation.failure}
        PROVE  Traces(operation, event)
    BY <1>1, LookupTraced DEF TellsId
  <1>2. operation.success # None /\ operation.failure # None
    BY DEF TellsId
  <1> QED
    BY <1>1, <1>2 DEF EventsTrace, SuccessReported, OutcomesTold

(* The operations that look something up by its id, client by client. *)
LEMMA StandardLookups ==
    ASSUME NoneIsNoDict, NEW id, NEW details, NEW operation,
           operation \in
             {Standard!get_order_status(id, details),
              Standard!get_refund_status(id),
              Standard!get_transaction_status(id)}
    PROVE  /\ EventsTrace(operation) /\ SuccessReported(operation)
           /\ OutcomesTold(operation)
  <1>1. CASE operation = Standard!get_order_status(id, details)
    <2>1. operation.data = None /\ operation.url = <<"/checkout/v2/order/", id, "/status">>
      BY <1>1 DEF Standard!get_order_status, Standard!ORDER_STATUS_API,
                  Standard!Get, Standard!Operation
    <2>2. /\ operation.success = Standard!build_order_status_event(
                "SUCCESS", "ORDER_STATUS_SUCCESS", id, "PG_CHECKOUT", Standard!ORDER_STATUS_API(id))
          /\ operation.failure = Standard!build_order_status_event(
                "FAILED", "ORDER_STATUS_FAILED", id, "PG_CHECKOUT", Standard!ORDER_STATUS_API(id))
      BY <1>1 DEF Standard!get_order_status, Standard!Get, Standard!Operation
    <2>3. Standard!ORDER_STATUS_API(id) = operation.url
      BY <2>1 DEF Standard!ORDER_STATUS_API
    <2>4. \A state, name, flow_type, url :
             Standard!build_order_status_event(state, name, id, flow_type, url)
                = build_order_status_event(state, name, id, flow_type, url)
      BY DEF Standard!build_order_status_event, Standard!BaseEvent,
             Standard!EventData, build_order_status_event, BaseEvent, EventData
    <2>5. \A event \in {operation.success, operation.failure} :
             TellsId(event, id, operation.url)
      BY <2>2, <2>3, <2>4, IdsTold
    <2>6. Tells(operation.success, "SUCCESS") /\ Tells(operation.failure, "FAILED")
      BY <2>2, <2>3, <2>4, BuildersTell
    <2> QED
      BY <2>1, <2>5, <2>6, LookupsTraced
  <1>2. CASE operation = Standard!get_refund_status(id)
    <2>1. operation.data = None /\ operation.url = <<"/payments/v2/refund/", id, "/status">>
      BY <1>2 DEF Standard!get_refund_status, Standard!REFUND_STATUS_API,
                  Standard!Get, Standard!Operation
    <2>2. /\ operation.success = Standard!build_refund_status_event(
                "SUCCESS", "REFUND_STATUS_SUCCESS", id, "PG_CHECKOUT", Standard!REFUND_STATUS_API(id))
          /\ operation.failure = Standard!build_refund_status_event(
                "FAILED", "REFUND_STATUS_FAILED", id, "PG_CHECKOUT", Standard!REFUND_STATUS_API(id))
      BY <1>2 DEF Standard!get_refund_status, Standard!Get, Standard!Operation
    <2>3. Standard!REFUND_STATUS_API(id) = operation.url
      BY <2>1 DEF Standard!REFUND_STATUS_API
    <2>4. \A state, name, flow_type, url :
             Standard!build_refund_status_event(state, name, id, flow_type, url)
                = build_refund_status_event(state, name, id, flow_type, url)
      BY DEF Standard!build_refund_status_event, Standard!BaseEvent,
             Standard!EventData, build_refund_status_event, BaseEvent, EventData
    <2>5. \A event \in {operation.success, operation.failure} :
             TellsId(event, id, operation.url)
      BY <2>2, <2>3, <2>4, IdsTold
    <2>6. Tells(operation.success, "SUCCESS") /\ Tells(operation.failure, "FAILED")
      BY <2>2, <2>3, <2>4, BuildersTell
    <2> QED
      BY <2>1, <2>5, <2>6, LookupsTraced
  <1>3. CASE operation = Standard!get_transaction_status(id)
    <2>1. operation.data = None /\ operation.url = <<"/checkout/v2/transaction/", id, "/status">>
      BY <1>3 DEF Standard!get_transaction_status, Standard!TRANSACTION_STATUS_API,
                  Standard!Get, Standard!Operation
    <2>2. /\ operation.success = Standard!build_transaction_status_event(
                "SUCCESS", "TRANSACTION_STATUS_SUCCESS", id, "PG_CHECKOUT", Standard!TRANSACTION_STATUS_API(id))
          /\ operation.failure = Standard!build_transaction_status_event(
                "FAILED", "TRANSACTION_STATUS_FAILED", id, "PG_CHECKOUT", Standard!TRANSACTION_STATUS_API(id))
      BY <1>3 DEF Standard!get_transaction_status, Standard!Get, Standard!Operation
    <2>3. Standard!TRANSACTION_STATUS_API(id) = operation.url
      BY <2>1 DEF Standard!TRANSACTION_STATUS_API
    <2>4. \A state, name, flow_type, url :
             Standard!build_transaction_status_event(state, name, id, flow_type, url)
                = build_transaction_status_event(state, name, id, flow_type, url)
      BY DEF Standard!build_transaction_status_event, Standard!BaseEvent,
             Standard!EventData, build_transaction_status_event, BaseEvent, EventData
    <2>5. \A event \in {operation.success, operation.failure} :
             TellsId(event, id, operation.url)
      BY <2>2, <2>3, <2>4, IdsTold
    <2>6. Tells(operation.success, "SUCCESS") /\ Tells(operation.failure, "FAILED")
      BY <2>2, <2>3, <2>4, BuildersTell
    <2> QED
      BY <2>1, <2>5, <2>6, LookupsTraced
  <1> QED
    BY <1>1, <1>2, <1>3

(* Those of the custom checkout client. *)
LEMMA CustomLookups ==
    ASSUME NoneIsNoDict, NEW id, NEW details, NEW operation,
           operation \in
             {Custom!get_order_status(id, details),
              Custom!get_refund_status(id),
              Custom!get_transaction_status(id)}
    PROVE  /\ EventsTrace(operation) /\ SuccessReported(operation)
           /\ OutcomesTold(operation)
  <1>1. CASE operation = Custom!get_order_status(id, details)
    <2>1. operation.data = None /\ operation.url = <<"/payments/v2/order/", id, "/status">>
      BY <1>1 DEF Custom!get_order_status, Custom!ORDER_STATUS_API,
                  Custom!Get, Custom!Operation
    <2>2. /\ operation.success = Custom!build_order_status_event(
                "SUCCESS", "ORDER_STATUS_SUCCESS", id, "PG", Custom!ORDER_STATUS_API(id))
          /\ operation.failure = Custom!build_order_status_event(
                "FAILED", "ORDER_STATUS_FAILED", id, "PG", Custom!ORDER_STATUS_API(id))
      BY <1>1 DEF Custom!get_order_status, Custom!Get, Custom!Operation
    <2>3. Custom!ORDER_STATUS_API(id) = operation.url
      BY <2>1 DEF Custom!ORDER_STATUS_API
    <2>4. \A state, name, flow_type, url :
             Custom!build_order_status_event(state, name, id, flow_type, url)
                = build_order_status_event(state, name, id, flow_type, url)
      BY DEF Custom!build_order_status_event, Custom!BaseEvent,
             Custom!EventData, build_order_status_event, BaseEvent, EventData
    <2>5. \A event \in {operation.success, operation.failure} :
             TellsId(event, id, operation.url)
      BY <2>2, <2>3, <2>4, IdsTold
    <2>6. Tells(operation.success, "SUCCESS") /\ Tells(operation.failure, "FAILED")
      BY <2>2, <2>3, <2>4, BuildersTell
    <2> QED
      BY <2>1, <2>5, <2>6, LookupsTraced
  <1>2. CASE operation = Custom!get_refund_status(id)
    <2>1. operation.data = None /\ operation.url = <<"/payments/v2/refund/", id, "/status">>
      BY <1>2 DEF Custom!get_refund_status, Custom!REFUND_STATUS_API,
                  Custom!Get, Custom!Operation
    <2>2. /\ operation.success = Custom!build_refund_status_event(
                "SUCCESS", "REFUND_STATUS_SUCCESS", id, "PG", Custom!REFUND_STATUS_API(id))
          /\ operation.failure = Custom!build_refund_status_event(
                "FAILED", "REFUND_STATUS_FAILED", id, "PG", Custom!REFUND_STATUS_API(id))
      BY <1>2 DEF Custom!get_refund_status, Custom!Get, Custom!Operation
    <2>3. Custom!REFUND_STATUS_API(id) = operation.url
      BY <2>1 DEF Custom!REFUND_STATUS_API
    <2>4. \A state, name, flow_type, url :
             Custom!build_refund_status_event(state, name, id, flow_type, url)
                = build_refund_status_event(state, name, id, flow_type, url)
      BY DEF Custom!build_refund_status_event, Custom!BaseEvent,
             Custom!EventData, build_refund_status_event, BaseEvent, EventData
    <2>5. \A event \in {operation.success, operation.failure} :
             TellsId(event, id, operation.url)
      BY <2>2, <2>3, <2>4, IdsTold
    <2>6. Tells(operation.success, "SUCCESS") /\ Tells(operation.failure, "FAILED")
      BY <2>2, <2>3, <2>4, BuildersTell
    <2> QED
      BY <2>1, <2>5, <2>6, LookupsTraced
  <1>3. CASE operation = Custom!get_transaction_status(id)
    <2>1. operation.data = None /\ operation.url = <<"/payments/v2/transaction/", id, "/status">>
      BY <1>3 DEF Custom!get_transaction_status, Custom!TRANSACTION_STATUS_API,
                  Custom!Get, Custom!Operation
    <2>2. /\ operation.success = Custom!build_transaction_status_event(
                "SUCCESS", "TRANSACTION_STATUS_SUCCESS", id, "PG", Custom!TRANSACTION_STATUS_API(id))
          /\ operation.failure = Custom!build_transaction_status_event(
                "FAILED", "TRANSACTION_STATUS_FAILED", id, "PG", Custom!TRANSACTION_STATUS_API(id))
      BY <1>3 DEF Custom!get_transaction_status, Custom!Get, Custom!Operation
    <2>3. Custom!TRANSACTION_STATUS_API(id) = operation.url
      BY <2>1 DEF Custom!TRANSACTION_STATUS_API
    <2>4. \A state, name, flow_type, url :
             Custom!build_transaction_status_event(state, name, id, flow_type, url)
                = build_transaction_status_event(state, name, id, flow_type, url)
      BY DEF Custom!build_transaction_status_event, Custom!BaseEvent,
             Custom!EventData, build_transaction_status_event, BaseEvent, EventData
    <2>5. \A event \in {operation.success, operation.failure} :
             TellsId(event, id, operation.url)
      BY <2>2, <2>3, <2>4, IdsTold
    <2>6. Tells(operation.success, "SUCCESS") /\ Tells(operation.failure, "FAILED")
      BY <2>2, <2>3, <2>4, BuildersTell
    <2> QED
      BY <2>1, <2>5, <2>6, LookupsTraced
  <1> QED
    BY <1>1, <1>2, <1>3

(* Those of the subscription client, with cancel_subscription. *)
LEMMA SubscriptionLookups ==
    ASSUME NoneIsNoDict, NEW id, NEW operation,
           operation \in
             {Subscription!get_order_status(id),
              Subscription!get_refund_status(id),
              Subscription!get_transaction_status(id),
              Subscription!get_subscription_status(id),
              Subscription!cancel_subscription(id)}
    PROVE  /\ EventsTrace(operation) /\ SuccessReported(operation)
           /\ OutcomesTold(operation)
  <1>1. CASE operation = Subscription!get_order_status(id)
    <2>1. operation.data = None /\ operation.url = <<"/subscriptions/v2/order/", id, "/status">>
      BY <1>1 DEF Subscription!get_order_status, Subscription!ORDER_STATUS_API,
                  Subscription!Versioned, Subscription!Get, Subscription!Operation
    <2>2. /\ operation.success = Subscription!build_order_status_event(
                "SUCCESS", "ORDER_STATUS_SUCCESS", id, "SUBSCRIPTION", Subscription!ORDER_STATUS_API(id))
          /\ operation.failure = Subscription!build_order_status_event(
                "FAILED", "ORDER_STATUS_FAILED", id, "SUBSCRIPTION", Subscription!ORDER_STATUS_API(id))
      BY <1>1 DEF Subscription!get_order_status, Subscription!Versioned, Subscription!Get, Subscription!Operation
    <2>3. Subscription!ORDER_STATUS_API(id) = operation.url
      BY <2>1 DEF Subscription!ORDER_STATUS_API
    <2>4. \A state, name, flow_type, url :
             Subscription!build_order_status_event(state, name, id, flow_type, url)
                = build_order_status_event(state, name, id, flow_type, url)
      BY DEF Subscription!build_order_status_event, Subscription!BaseEvent,
             Subscription!EventData, build_order_status_event, BaseEvent, EventData
    <2>5. \A event \in {operation.success, operation.failure} :
             TellsId(event, id, operation.url)
      BY <2>2, <2>3, <2>4, IdsTold
    <2>6. Tells(operation.success, "SUCCESS") /\ Tells(operation.failure, "FAILED")
      BY <2>2, <2>3, <2>4, BuildersTell
    <2> QED
      BY <2>1, <2>5, <2>6, LookupsTraced
  <1>2. CASE operation = Subscription!get_refund_status(id)
    <2>1. operation.data = None /\ operation.url = <<"/payments/v2/refund/", id, "/status">>
      BY <1>2 DEF Subscription!get_refund_status, Subscription!REFUND_STATUS_API,
                  Subscription!Versioned, Subscription!Get, Subscription!Operation
    <2>2. /\ operation.success = Subscription!build_refund_status_event(
                "SUCCESS", "REFUND_STATUS_SUCCESS", id, "SUBSCRIPTION", Subscription!REFUND_STATUS_API(id))
          /\ operation.failure = Subscription!build_refund_status_event(
                "FAILED", "REFUND_STATUS_FAILED", id, "SUBSCRIPTION", Subscription!REFUND_STATUS_API(id))
      BY <1>2 DEF Subscription!get_refund_status, Subscription!Versioned, Subscription!Get, Subscription!Operation
    <2>3. Subscription!REFUND_STATUS_API(id) = operation.url
      BY <2>1 DEF Subscription!REFUND_STATUS_API
    <2>4. \A state, name, flow_type, url :
             Subscription!build_refund_status_event(state, name, id, flow_type, url)
                = build_refund_status_event(state, name, id, flow_type, url)
      BY DEF Subscription!build_refund_status_event, Subscription!BaseEvent,
             Subscription!EventData, build_refund_status_event, BaseEvent, EventData
    <2>5. \A event \in {operation.success, operation.failure} :
             TellsId(event, id, operation.url)
      BY <2>2, <2>3, <2>4, IdsTold
    <2>6. Tells(operation.success, "SUCCESS") /\ Tells(operation.failure, "FAILED")
      BY <2>2, <2>3, <2>4, BuildersTell
    <2> QED
      BY <2>1, <2>5, <2>6, LookupsTraced
  <1>3. CASE operation = Subscription!get_transaction_status(id)
    <2>1. operation.data = None /\ operation.url = <<"/subscriptions/v2/transaction/", id, "/status">>
      BY <1>3 DEF Subscription!get_transaction_status, Subscription!TRANSACTION_STATUS_API,
                  Subscription!Versioned, Subscription!Get, Subscription!Operation
    <2>2. /\ operation.success = Subscription!build_transaction_status_event(
                "SUCCESS", "TRANSACTION_STATUS_SUCCESS", id, "SUBSCRIPTION", Subscription!TRANSACTION_STATUS_API(id))
          /\ operation.failure = Subscription!build_transaction_status_event(
                "FAILED", "TRANSACTION_STATUS_FAILED", id, "SUBSCRIPTION", Subscription!TRANSACTION_STATUS_API(id))
      BY <1>3 DEF Subscription!get_transaction_status, Subscription!Versioned, Subscription!Get, Subscription!Operation
    <2>3. Subscription!TRANSACTION_STATUS_API(id) = operation.url
      BY <2>1 DEF Subscription!TRANSACTION_STATUS_API
    <2>4. \A state, name, flow_type, url :
             Subscription!build_transaction_status_event(state, name, id, flow_type, url)
                = build_transaction_status_event(state, name, id, flow_type, url)
      BY DEF Subscription!build_transaction_status_event, Subscription!BaseEvent,
             Subscription!EventData, build_transaction_status_event, BaseEvent, EventData
    <2>5. \A event \in {operation.success, operation.failure} :
             TellsId(event, id, operation.url)
      BY <2>2, <2>3, <2>4, IdsTold
    <2>6. Tells(operation.success, "SUCCESS") /\ Tells(operation.failure, "FAILED")
      BY <2>2, <2>3, <2>4, BuildersTell
    <2> QED
      BY <2>1, <2>5, <2>6, LookupsTraced
  <1>4. CASE operation = Subscription!get_subscription_status(id)
    <2>1. operation.data = None /\ operation.url = <<"/subscriptions/v2/", id, "/status">>
      BY <1>4 DEF Subscription!get_subscription_status, Subscription!SUBSCRIPTION_STATUS_API,
                  Subscription!Versioned, Subscription!Get, Subscription!Operation
    <2>2. /\ operation.success = Subscription!build_subscription_event(
                "SUCCESS", "SUBSCRIPTION_STATUS_SUCCESS", id, Subscription!SUBSCRIPTION_STATUS_API(id))
          /\ operation.failure = Subscription!build_subscription_event(
                "FAILED", "SUBSCRIPTION_STATUS_FAILED", id, Subscription!SUBSCRIPTION_STATUS_API(id))
      BY <1>4 DEF Subscription!get_subscription_status, Subscription!Versioned, Subscription!Get, Subscription!Operation
    <2>3. Subscription!SUBSCRIPTION_STATUS_API(id) = operation.url
      BY <2>1 DEF Subscription!SUBSCRIPTION_STATUS_API
    <2>4. \A state, name, url :
             Subscription!build_subscription_event(state, name, id, url)
                = build_subscription_event(state, name, id, url)
      BY DEF Subscription!build_subscription_event, Subscription!BaseEvent,
             Subscription!EventData, build_subscription_event, BaseEvent, EventData
    <2>5. \A event \in {operation.success, operation.failure} :
             TellsId(event, id, operation.url)
      BY <2>2, <2>3, <2>4, IdsTold
    <2>6. Tells(operation.success, "SUCCESS") /\ Tells(operation.failure, "FAILED")
      BY <2>2, <2>3, <2>4, BuildersTell
    <2> QED
      BY <2>1, <2>5, <2>6, LookupsTraced
  <1>5. CASE operation = Subscription!cancel_subscription(id)
    <2>1. operation.data = None /\ operation.url = <<"/subscriptions/v2/", id, "/cancel">>
      BY <1>5 DEF Subscription!cancel_subscription, Subscription!CANCEL_SUBSCRIPTION_API,
                  Subscription!Versioned, Subscription!Post, Subscription!Operation
    <2>2. /\ operation.success = Subscription!build_subscription_event(
                "SUCCESS", "CANCEL_SUCCESS", id, Subscription!CANCEL_SUBSCRIPTION_API(id))
          /\ operation.failure = Subscription!build_subscription_event(
                "FAILED", "CANCEL_FAILED", id, Subscription!CANCEL_SUBSCRIPTION_API(id))
      BY <1>5 DEF Subscription!cancel_subscription, Subscription!Versioned, Subscription!Post, Subscription!Operation
    <2>3. Subscription!CANCEL_SUBSCRIPTION_API(id) = operation.url
      BY <2>1 DEF Subscription!CANCEL_SUBSCRIPTION_API
    <2>4. \A state, name, url :
             Subscription!build_subscription_event(state, name, id, url)
                = build_subscription_event(state, name, id, url)
      BY DEF Subscription!build_subscription_event, Subscription!BaseEvent,
             Subscription!EventData, build_subscription_event, BaseEvent, EventData
    <2>5. \A event \in {operation.success, operation.failure} :
             TellsId(event, id, operation.url)
      BY <2>2, <2>3, <2>4, IdsTold
    <2>6. Tells(operation.success, "SUCCESS") /\ Tells(operation.failure, "FAILED")
      BY <2>2, <2>3, <2>4, BuildersTell
    <2> QED
      BY <2>1, <2>5, <2>6, LookupsTraced
  <1> QED
    BY <1>1, <1>2, <1>3, <1>4, <1>5

(* SubscriptionClient.redeem, whose request is the order's id. *)
LEMMA SubscriptionRedeem ==
    ASSUME NoneIsNoDict, NEW id
    PROVE  /\ EventsTrace(Subscription!redeem(id)) /\ SuccessReported(Subscription!redeem(id))
           /\ OutcomesTold(Subscription!redeem(id))
  <1> DEFINE operation == Subscription!redeem(id)
             request == [merchant_order_id |-> id]
  <1>1. Subscription!to_json(request) = to_json(request)
    BY DEF Subscription!to_json, to_json, Subscription!Attr, Attr
  <1>2. operation.url = <<"/subscriptions/v2/redeem">> /\ operation.data = to_json(request)
    BY <1>1 DEF Subscription!redeem, Subscription!Versioned, Subscription!Post,
                Subscription!Operation, Subscription!REDEEM_API,
                Subscription!SubscriptionRedeemRequestV2
  <1>3. \E name, other :
           /\ operation.success = build_subscription_redeem_event("SUCCESS", name, id, operation.url)
           /\ operation.failure = build_subscription_redeem_event("FAILED", other, id, operation.url)
    <2>1. /\ operation.success = Subscription!build_subscription_redeem_event(
                "SUCCESS", "REDEEM_SUCCESS", id, Subscription!REDEEM_API)
          /\ operation.failure = Subscription!build_subscription_redeem_event(
                "FAILED", "REDEEM_FAILED", id, Subscription!REDEEM_API)
      BY DEF Subscription!redeem, Subscription!Versioned, Subscription!Post,
             Subscription!Operation
    <2>2. Subscription!REDEEM_API = operation.url
      BY <1>2 DEF Subscription!REDEEM_API
    <2>3. \A state, name, url :
             Subscription!build_subscription_redeem_event(state, name, id, url)
                = build_subscription_redeem_event(state, name, id, url)
      BY DEF Subscription!build_subscription_redeem_event, Subscription!BaseEvent,
             Subscription!EventData, build_subscription_redeem_event, BaseEvent, EventData
    <2> HIDE DEF operation
    <2> QED
      BY <2>1, <2>2, <2>3
  <1>4. Facts(operation.data) =
            [order |-> id, refund |-> None, original |-> None, subscription |-> None,
             amount |-> None, expire_after |-> None, expire_at |-> None]
    <2>1. \A f : f \notin {"device_os", "prefill_user_login_details"} =>
             Attr(to_json(request), f) = IF f = "merchant_order_id" THEN id ELSE None
      BY JsonField
    <2> QED
      BY <1>2, <2>1 DEF Facts, Attr
  <1>5. Len(operation.url) = 1
    BY <1>2
  <1> HIDE DEF operation
  <1>6. \A state, name :
           LET event == build_subscription_redeem_event(state, name, id, operation.url)
           IN  /\ Told(event) = Facts(operation.data)
               /\ event.data.api_path = operation.url /\ event.data.transaction_id = None
    BY <1>4 DEF build_subscription_redeem_event, BaseEvent, EventData, Told
  <1>7. EventsTrace(operation)
    BY <1>3, <1>5, <1>6, FactsTraced DEF EventsTrace
  <1>8. operation.success # None /\ operation.failure # None
    BY <1>3, EventIsSomething DEF build_subscription_redeem_event
  <1>9. SuccessReported(operation)
    BY <1>8 DEF SuccessReported
  <1>10. OutcomesTold(operation)
    BY <1>3, <1>8, BuildersTell DEF OutcomesTold
  <1> QED
    BY <1>7, <1>9, <1>10 DEF operation

(* Every operation, with every request made for it. *)
LEMMA OperationsTraced ==
    ASSUME NoneIsNoDict, NoneIsNoTag, NEW operation, FittingOperation(operation)
    PROVE  /\ EventsTrace(operation) /\ SuccessReported(operation)
           /\ OutcomesTold(operation)
  <1>1. CASE \E request :
               \/ /\ CardRequest(request) \/ CardlessRequest(request) \/ Flowlessly(request)
                  /\ operation = Custom!pay(request)
               \/ /\ SetupRequest(request) \/ Flowlessly(request)
                  /\ operation = Subscription!setup(request)
               \/ /\ NotifyRequest(request) \/ Flowlessly(request)
                  /\ operation = Subscription!notify(request)
               \/ /\ CheckoutRequest(request)
                  /\ operation \in {Standard!pay(request), Standard!create_sdk_order(request),
                                    Custom!create_sdk_order(request)}
               \/ /\ RefundRequest(request)
                  /\ operation \in {Standard!refund(request), Custom!refund(request),
                                    Subscription!refund(request)}
    BY <1>1, CustomPay, SubscriptionSetup, SubscriptionNotify, StandardPay,
       StandardSdkOrder, CustomSdkOrder, Refunds
  <1>2. CASE \E id, details :
               operation \in
                 {Standard!get_order_status(id, details), Standard!get_refund_status(id),
                  Standard!get_transaction_status(id),
                  Custom!get_order_status(id, details), Custom!get_refund_status(id),
                  Custom!get_transaction_status(id), Subscription!redeem(id),
                  Subscription!get_subscription_status(id), Subscription!get_order_status(id),
                  Subscription!get_transaction_status(id), Subscription!cancel_subscription(id),
                  Subscription!get_refund_status(id)}
    BY <1>2, StandardLookups, CustomLookups, SubscriptionLookups, SubscriptionRedeem
  <1> QED
    BY <1>1, <1>2 DEF FittingOperation

-----------------------------------------------------------------------------
(* The events of a call that has ended are those of its operation, but for  *)
(* the exception added to them.                                             *)
ReportOf(operation, event) ==
    \/ event # None /\ event = operation.success
    \/ /\ operation.failure # None
       /\ \E e : event = populate_phonepe_exception_fields(operation.failure, e)

ReportInv ==
    \A t \in Threads : stage[t] \in {"returned", "raised"} =>
        \A i \in DOMAIN reports[t] : ReportOf(Operations[call[t]], reports[t][i])

(* No call has ended yet. *)
LEMMA ReportInit == Init => ReportInv
  BY DEF Init, ReportInv

(* Only the steps that end a call report it. *)
LEMMA ReportStep ==
    ASSUME CallInv, UnreportedInv, ReportInv, [Next]_vars
    PROVE  ReportInv'
  <1> USE DEF CallInv, TypeOK, Shape, PerThread, Goto, ReportInv
  <1>1. CASE TokenStored \/ UNCHANGED vars
    BY <1>1 DEF TokenStored, vars
  <1>2. ASSUME NEW t \in Threads, Begin(t) \/ Run(t)
        PROVE  ReportInv'
    <2>1. /\ stage[t] \in {"idle", "sent"} /\ stage'[t] \in {"header", "sent"}
          /\ UNCHANGED reports
          /\ \A u \in Threads \ {t} : stage'[u] = stage[u] /\ call'[u] = call[u]
      BY <1>2 DEF Begin, Run
    <2> QED
      BY <2>1
  <1>3. ASSUME NEW t \in Threads,
               \/ Send(t) \/ NoToken(t) \/ Accept(t) \/ Reject(t) \/ Lose(t)
               \/ ForceRefresh(t) \/ Refreshed(t) \/ RefreshFails(t)
        PROVE  ReportInv'
    <2>1. /\ \E where \in {"sent", "unauthorized", "refreshing", "failed", "succeeded"} :
                Goto(t, where)
          /\ UNCHANGED <<call, reports>>
      BY <1>3 DEF Send, NoToken, Accept, Reject, Lose, ForceRefresh, Refreshed, RefreshFails
    <2> QED
      BY <2>1
  <1>4. ASSUME NEW t \in Threads, Return(t)
        PROVE  ReportInv'
    <2> DEFINE event == Operations[call[t]].success
    <2>1. reports[t] = <<>> /\ UNCHANGED call
      BY <1>4 DEF Return, UnreportedInv, Unreported
    <2>2. CASE event = None
      BY <1>4, <2>2 DEF Return
    <2>3. CASE event # None
      <3>1. Publish(t, event) /\ Goto(t, "returned")
        BY <1>4, <2>3 DEF Return
      <3> HIDE DEF event
      <3>2. \A i \in DOMAIN reports'[t] : reports'[t][i] = event
        BY <2>1, <3>1, OneReport DEF Publish
      <3>3. \A i \in DOMAIN reports'[t] : ReportOf(Operations[call[t]], reports'[t][i])
        BY <2>3, <3>2 DEF ReportOf, event
      <3> QED
        BY <2>1, <3>1, <3>3 DEF Publish
    <2> QED
      BY <2>2, <2>3
  <1>5. ASSUME NEW t \in Threads, Raise(t)
        PROVE  ReportInv'
    <2> DEFINE failure == Operations[call[t]].failure
               event == populate_phonepe_exception_fields(failure, exception[t])
    <2>1. reports[t] = <<>> /\ UNCHANGED call /\ Goto(t, "raised")
      BY <1>5 DEF Raise, UnreportedInv, Unreported
    <2>2. CASE failure = None
      <3>1. UNCHANGED reports
        BY <1>5, <2>2 DEF Raise
      <3> QED
        BY <2>1, <3>1
    <2>3. CASE failure # None
      <3>1. Publish(t, event)
        BY <1>5, <2>3 DEF Raise
      <3>2. ReportOf(Operations[call[t]], event)
        BY <2>3 DEF ReportOf
      <3> HIDE DEF event, failure
      <3>3. \A i \in DOMAIN reports'[t] : reports'[t][i] = event
        BY <2>1, <3>1, OneReport DEF Publish
      <3> QED
        BY <2>1, <3>1, <3>2, <3>3 DEF Publish
    <2> QED
      BY <2>2, <2>3
  <1>6. ASSUME NEW t \in Threads, ValidateCallback(t) \/ EndCallback(t) \/ End(t)
        PROVE  ReportInv'
    <2>1. /\ \E where \in {"idle", "validated"} : Goto(t, where)
          /\ \A u \in Threads \ {t} : call'[u] = call[u] /\ reports'[u] = reports[u]
      BY <1>6 DEF ValidateCallback, EndCallback, End, Forget, Publish
    <2> QED
      BY <2>1
  <1> QED
    BY <1>1, <1>2, <1>3, <1>4, <1>5, <1>6 DEF Next

(* An exception added to an event leaves alone what it tells of the request. *)
LEMMA StillTraces ==
    ASSUME NEW operation, NEW event, NEW state, NEW e,
           Tells(event, state), event # None, Traces(operation, event)
    PROVE  Traces(operation, populate_phonepe_exception_fields(event, e))
  <1> DEFINE reported == populate_phonepe_exception_fields(event, e)
  <1>1. /\ reported.merchant_order_id = event.merchant_order_id
        /\ \A f \in {"api_path", "merchant_refund_id", "original_merchant_order_id",
                     "transaction_id", "merchant_subscription_id", "amount",
                     "expire_after", "order_expire_at"} :
              reported.data[f] = event.data[f]
    BY DEF Tells, populate_phonepe_exception_fields, EventData, BaseEvent
  <1> HIDE DEF reported
  <1>2. EventIds(reported) = EventIds(event)
    BY <1>1 DEF EventIds
  <1>3. Traces(operation, reported)
    BY <1>1, <1>2 DEF Traces
  <1> QED
    BY <1>3 DEF reported

(* What OperationsOK assumes of the operations is true of every operation of *)
(* the three clients: its events tell the outcomes they are reported for,   *)
(* and one cannot be built only if the request has no payment flow.         *)
THEOREM OutcomesAreTold ==
    ASSUME NoneIsNoDict, NoneIsNoTag, NEW operation, FittingOperation(operation)
    PROVE  OutcomesTold(operation)
  BY OperationsTraced

(* Whatever the operations of the clients are called with, the event that   *)
(* reports a call has the url of its request and names the same order,      *)
(* refund, transaction and subscription, amount and dates; only the         *)
(* subscription of a redemption that is announced is missing.               *)
THEOREM EventsMatchRequests ==
    ASSUME NoneIsNoDict, NoneIsNoTag,
           \A name \in DOMAIN Operations : FittingOperation(Operations[name])
    PROVE  Spec => []EventTracesCall
  <1>1. ASSUME CallInv, ReportInv
        PROVE  EventTracesCall
    <2> SUFFICES ASSUME NEW t \in Threads, stage[t] \in {"returned", "raised"},
                        NEW event \in CallReports(t)
                 PROVE  Traces(Operations[call[t]], event)
      BY DEF EventTracesCall, Traces
    <2> DEFINE operation == Operations[call[t]]
    <2>1. call[t] \in DOMAIN Operations
      BY <1>1 DEF CallInv, TypeOK
    <2>2. EventsTrace(operation)
      BY <2>1, OperationsTraced
    <2>3. Tells(operation.failure, "FAILED")
      BY <2>1, OperationsOK
    <2>4. ReportOf(operation, event)
      BY <1>1 DEF CallReports, ReportInv
    <2> HIDE DEF operation
    <2>5. Traces(operation, event)
      BY <2>2, <2>3, <2>4, StillTraces DEF EventsTrace, ReportOf
    <2> QED
      BY <2>5 DEF operation
  <1> QED
    BY <1>1, CallInit, CallStep, UnreportedInit, UnreportedStep, ReportInit, ReportStep,
       PTL DEF Spec

-----------------------------------------------------------------------------
(* Undecodable is neither what a model decodes to, a dataclass, a dict or a *)
(* list, nor None, nor the tag of an instrument.                            *)
UndecodableIsNoModel ==
    /\ Undecodable # [f \in DOMAIN Undecodable |-> Undecodable[f]]
    /\ Undecodable \notin PgV2InstrumentType \cup {None}

(* A body is no exception either, and its user defined fields have lengths. *)
IsBody(body) ==
    LET meta_info == Attr(body, "meta_info")
    IN  /\ body # Undecodable /\ meta_info # Undecodable
        /\ meta_info # None => \A i \in DOMAIN meta_info : meta_info[i].size \in Nat

(* A part of any type is decoded. *)
LEMMA PartsDecode ==
    ASSUME UndecodableIsNoModel
    PROVE  /\ \A class, object : Part(class, object) # Undecodable
           /\ \A object : map_to_payment_instrument(object) # Undecodable
           /\ \A object : map_to_payment_rail(object) # Undecodable
  <1>1. \A class, object : Part(class, object) # Undecodable
    BY DEF Part, UndecodableIsNoModel
  <1>2. \A mapper, object : \E class : Typed(mapper, object) = Part(class, object)
    BY DEF Typed
  <1> QED
    BY <1>1, <1>2 DEF map_to_payment_instrument, map_to_payment_rail

(* A combination of an instrument and a rail is decoded, whatever they are. *)
LEMMA CombosDecode ==
    ASSUME UndecodableIsNoModel
    PROVE  \A object : InstrumentCombo(object) # Undecodable
  <1> SUFFICES ASSUME NEW object
               PROVE  InstrumentCombo(object) # Undecodable
    OBVIOUS
  <1> DEFINE combo == [instrument |-> map_to_payment_instrument(Attr(object, "instrument")),
                       rail |-> map_to_payment_rail(Attr(object, "rail"))]
  <1>1. combo # Undecodable
    BY DEF UndecodableIsNoModel
  <1>2. \A f \in DOMAIN combo : combo[f] # Undecodable
    BY PartsDecode
  <1>3. InstrumentCombo(object) = Whole(combo)
    BY DEF InstrumentCombo
  <1> HIDE DEF combo
  <1> QED
    BY <1>1, <1>2, <1>3 DEF Whole

(* A payment, or a refund, of a known mode is decoded. *)
LEMMA DetailDecodes ==
    ASSUME UndecodableIsNoModel, NEW object,
           Attr(object, "payment_mode") \in PgV2InstrumentType \cup {None}
    PROVE  Detail(object) # Undecodable
  <1> DEFINE list == Attr(object, "split_instruments")
             combos == [i \in DOMAIN list |-> InstrumentCombo(list[i])]
             split == Each(list, InstrumentCombo)
             mode == IF Known(Attr(object, "payment_mode"), PgV2InstrumentType)
                       THEN Attr(object, "payment_mode") ELSE Undecodable
             detail == [payment_mode |-> mode,
                        instrument |-> map_to_payment_instrument(Attr(object, "instrument")),
                        rail |-> map_to_payment_rail(Attr(object, "rail")),
                        split_instruments |-> split]
  <1>1. mode # Undecodable
    BY DEF Known, UndecodableIsNoModel
  <1>2. combos # Undecodable
    BY DEF UndecodableIsNoModel
  <1>3. \A i \in DOMAIN combos : combos[i] # Undecodable
    BY CombosDecode
  <1>4. split = IF list = None THEN None ELSE Whole(combos)
    BY DEF Each
  <1> HIDE DEF list, combos, split, mode
  <1>5. split # Undecodable
    BY <1>2, <1>3, <1>4 DEF Whole, UndecodableIsNoModel
  <1>6. \A f \in DOMAIN detail : detail[f] # Undecodable
    BY <1>1, <1>5, PartsDecode
  <1>7. detail # Undecodable
    BY DEF UndecodableIsNoModel
  <1>8. Detail(object) = Whole(detail)
    BY DEF Detail, list, split, mode
  <1> HIDE DEF detail
  <1> QED
    BY <1>6, <1>7, <1>8 DEF Whole

(* The user defined fields of a readable body are within the limits that    *)
(* MetaInfo checks.                                                         *)
LEMMA MetaInfoDecodes ==
    ASSUME NEW body, IsBody(body), Readable(body), Attr(body, "meta_info") # None
    PROVE  MetaInfo(Attr(body, "meta_info")) # Undecodable
  <1> DEFINE udfs == Attr(body, "meta_info")
  <1>1. udfs # Undecodable /\ \A i \in DOMAIN udfs : udfs[i].size \in Nat
    BY DEF IsBody
  <1>2. \A i \in DOMAIN udfs : IF i <= 10 THEN udfs[i].size < 257
                               ELSE udfs[i].size < 51 /\ udfs[i].plain
    BY DEF Readable
  <1> HIDE DEF udfs
  <1>3. \A i \in DOMAIN udfs : IF i <= 10 THEN udfs[i].size <= 256
                               ELSE udfs[i].size <= 50 /\ udfs[i].plain
    BY <1>1, <1>2
  <1>4. MetaInfo(udfs) = udfs
    BY <1>3 DEF MetaInfo
  <1> QED
    BY <1>1, <1>4 DEF udfs

(* A list of payments of known modes is decoded. *)
LEMMA ListDecodes ==
    ASSUME UndecodableIsNoModel, NEW body, Readable(body)
    PROVE  /\ Each(Attr(body, "payment_details"), PaymentDetail) # Undecodable
           /\ Each(Attr(body, "payment_details"), PaymentRefundDetail) # Undecodable
  <1> DEFINE list == Attr(body, "payment_details")
             decoded == [i \in DOMAIN list |-> Detail(list[i])]
  <1>1. list # None => \A i \in DOMAIN list : Detail(list[i]) # Undecodable
    BY DetailDecodes DEF Readable
  <1>2. decoded # Undecodable
    BY DEF UndecodableIsNoModel
  <1>3. /\ Each(list, PaymentDetail) = IF list = None THEN None ELSE Whole(decoded)
        /\ Each(list, PaymentRefundDetail) = IF list = None THEN None ELSE Whole(decoded)
    BY DEF Each, PaymentDetail, PaymentRefundDetail
  <1>4. list # None => \A i \in DOMAIN decoded : decoded[i] # Undecodable
    BY <1>1
  <1> HIDE DEF list, decoded
  <1>5. list # None => Whole(decoded) # Undecodable
    BY <1>2, <1>4 DEF Whole
  <1>6. None # Undecodable
    BY DEF UndecodableIsNoModel
  <1>7. /\ Each(list, PaymentDetail) # Undecodable
        /\ Each(list, PaymentRefundDetail) # Undecodable
    BY <1>3, <1>5, <1>6
  <1> QED
    BY <1>7 DEF list

(* from_dict of any response class accepts a readable body: no tag of an    *)
(* instrument, a rail or a flow that the SDK does not know stops it.        *)
LEMMA ReadableDecodes ==
    ASSUME UndecodableIsNoModel, NEW response_obj, NEW body, IsBody(body), Readable(body)
    PROVE  from_dict(response_obj, body) # Undecodable
  <1>1. body # NotJson /\ body # Undecodable
    BY DEF Readable, IsBody
  <1>2. OrderStatusResponse(body) # Undecodable
    <2> DEFINE meta_info == IF Attr(body, "meta_info") = None THEN None
                            ELSE MetaInfo(body.meta_info)
               details == Each(Attr(body, "payment_details"), PaymentDetail)
               flow == map_to_payment_flow_response(Attr(body, "payment_flow"))
               fields == [meta_info |-> meta_info, payment_details |-> details,
                          payment_flow |-> flow]
    <2>1. meta_info # Undecodable
      <3>1. Attr(body, "meta_info") # None => body.meta_info = Attr(body, "meta_info")
        BY DEF Attr
      <3>2. Attr(body, "meta_info") # None => MetaInfo(Attr(body, "meta_info")) # Undecodable
        BY MetaInfoDecodes
      <3> QED
        BY <3>1, <3>2 DEF UndecodableIsNoModel
    <2>2. details # Undecodable
      BY ListDecodes
    <2>3. flow # Undecodable
      <3>1. TermsKnown(Attr(body, "payment_flow")) /\ RetryKnown(Attr(body, "payment_flow"))
        BY DEF Readable
      <3> QED
        BY <3>1, PartsDecode DEF map_to_payment_flow_response
    <2> HIDE DEF meta_info, details, flow
    <2>4. \A f \in DOMAIN fields : fields[f] # Undecodable
      BY <2>1, <2>2, <2>3
    <2>5. fields # Undecodable
      BY DEF UndecodableIsNoModel
    <2>6. OrderStatusResponse(body) = Whole(fields)
      BY DEF OrderStatusResponse, Order_Fields, meta_info, details, flow
    <2> HIDE DEF fields
    <2> QED
      BY <2>4, <2>5, <2>6 DEF Whole
  <1>3. RefundStatusResponse(body) # Undecodable
    <2> DEFINE details == Each(Attr(body, "payment_details"), PaymentRefundDetail)
               fields == [payment_details |-> details]
    <2>1. details # Undecodable
      BY ListDecodes
    <2>2. RefundStatusResponse(body) = Whole(fields)
      BY DEF RefundStatusResponse
    <2> HIDE DEF details
    <2>3. \A f \in DOMAIN fields : fields[f] # Undecodable
      BY <2>1
    <2>4. fields # Undecodable
      BY DEF UndecodableIsNoModel
    <2> HIDE DEF fields
    <2> QED
      BY <2>2, <2>3, <2>4 DEF Whole
  <1>4. SubscriptionStatusResponseV2(body) # Undecodable
    BY <1>1 DEF Readable, SubscriptionStatusResponseV2
  <1> QED
    BY <1>1, <1>2, <1>3, <1>4 DEF from_dict

-----------------------------------------------------------------------------
(* A call has a 2xx response only when it has succeeded or failed for good; *)
(* it fails after a readable one only if its success cannot be reported.    *)
Accepted(t) == answer[t].status \in 200 .. 299

AcceptedInv ==
    \A t \in Threads :
        /\ Accepted(t) => stage[t] \in {"succeeded", "failed", "returned", "raised"}
        /\ Accepted(t) /\ stage[t] \in {"failed", "raised"} /\ Readable(answer[t].body)
              => Operations[call[t]].success = None

(* The bodies of the 2xx responses to the operations. *)
BodiesAreBodies ==
    \A name \in DOMAIN Operations :
        \A body \in Bodies[Operations[name].response_obj] \ {NotJson} : IsBody(body)

(* There is no response yet. *)
LEMMA AcceptedInit == Init => AcceptedInv
  <1> SUFFICES ASSUME Init, NEW t \in Threads
               PROVE  ~Accepted(t)
    BY DEF AcceptedInv
  <1>1. answer[t].status = 0
    BY DEF Init, NoAnswer
  <1> QED
    BY <1>1 DEF Accepted

(* A response is accepted only if it can be decoded, and then only a report *)
(* that cannot be made turns the call into a failure.                       *)
LEMMA AcceptedStep ==
    ASSUME UndecodableIsNoModel, BodiesAreBodies, CallInv, AcceptedInv, [Next]_vars
    PROVE  AcceptedInv'
  <1> USE DEF CallInv, TypeOK, Shape, PerThread, Goto, AcceptedInv, Accepted
  <1>1. CASE TokenStored \/ UNCHANGED vars
    BY <1>1 DEF TokenStored, vars
  <1>2. ASSUME NEW t \in Threads,
               \/ Begin(t) \/ Send(t) \/ Run(t) \/ NoToken(t) \/ Lose(t) \/ ForceRefresh(t)
               \/ Refreshed(t) \/ RefreshFails(t) \/ ValidateCallback(t)
        PROVE  AcceptedInv'
    <2>1. /\ stage[t] \in {"idle", "header", "sent", "unauthorized", "refreshing"}
          /\ UNCHANGED stage \/ \E where : Goto(t, where)
          /\ UNCHANGED answer
          /\ \A u \in Threads \ {t} : call'[u] = call[u]
      BY <1>2 DEF Begin, Send, Run, NoToken, Lose, ForceRefresh, Refreshed, RefreshFails,
                  ValidateCallback
    <2>2. ~Accepted(t) /\ ~Accepted(t)'
      BY <2>1
    <2> QED
      BY <2>1, <2>2
  <1>3. ASSUME NEW t \in Threads, Accept(t)
        PROVE  AcceptedInv'
    <2> DEFINE response_obj == Operations[call[t]].response_obj
    <2>1. call[t] \in DOMAIN Operations /\ UNCHANGED call
      BY <1>3 DEF Accept
    <2>2. PICK body \in Bodies[response_obj] :
            /\ answer' = [answer EXCEPT ![t] = [status |-> 200, body |-> body]]
            /\ \/ from_dict(response_obj, body) = Undecodable /\ Goto(t, "failed")
               \/ Goto(t, "succeeded")
      BY <1>3 DEF Accept
    <2>3. Readable(body) => Goto(t, "succeeded")
      <3>1. Readable(body) => IsBody(body)
        BY <2>1 DEF BodiesAreBodies, Readable
      <3> HIDE DEF response_obj
      <3>2. Readable(body) => from_dict(response_obj, body) # Undecodable
        BY <3>1, ReadableDecodes
      <3> QED
        BY <2>2, <3>2
    <2> HIDE DEF response_obj
    <2> QED
      BY <2>1, <2>2, <2>3
  <1>4. ASSUME NEW t \in Threads, Reject(t)
        PROVE  AcceptedInv'
    <2>1. /\ \E error \in Errors : answer' = [answer EXCEPT ![t] = error]
          /\ \E where : Goto(t, where)
          /\ UNCHANGED call
      BY <1>4 DEF Reject
    <2>2. ~Accepted(t)'
      <3>1. \A error \in Errors : error.status \in 300 .. 599
        BY ParametersOK
      <3>2. answer'[t].status \in 300 .. 599
        BY <2>1, <3>1
      <3> DEFINE status == answer'[t].status
      <3>3. status \in 300 .. 599
        BY <3>2
      <3> HIDE DEF status
      <3>4. status \notin 200 .. 299
        BY <3>3
      <3> QED
        BY <3>4 DEF status
    <2> QED
      BY <2>1, <2>2
  <1>5. ASSUME NEW t \in Threads, Return(t)
        PROVE  AcceptedInv'
    <2>1. /\ \/ Goto(t, "returned")
             \/ Operations[call[t]].success = None /\ Goto(t, "failed")
          /\ UNCHANGED <<answer, call>>
      BY <1>5 DEF Return
    <2> QED
      BY <2>1
  <1>6. ASSUME NEW t \in Threads, Raise(t)
        PROVE  AcceptedInv'
    <2>1. stage[t] = "failed" /\ Goto(t, "raised") /\ UNCHANGED <<answer, call>>
      BY <1>6 DEF Raise
    <2> QED
      BY <2>1
  <1>7. ASSUME NEW t \in Threads, EndCallback(t) \/ End(t)
        PROVE  AcceptedInv'
    <2>1. /\ answer' = [answer EXCEPT ![t] = NoAnswer] /\ Goto(t, "idle")
          /\ \A u \in Threads \ {t} : call'[u] = call[u]
      BY <1>7 DEF EndCallback, End, Forget
    <2>2. ~Accepted(t)'
      BY <2>1 DEF NoAnswer
    <2> QED
      BY <2>1, <2>2
  <1> QED
    BY <1>1, <1>2, <1>3, <1>4, <1>5, <1>6, <1>7 DEF Next

(* Whatever the operations are called with and whatever well-formed bodies  *)
(* the server sends, an operation it has carried out returns; only the      *)
(* announcement of a redemption without a payment flow does not.            *)
THEOREM SuccessIsReturned ==
    ASSUME NoneIsNoDict, NoneIsNoTag, UndecodableIsNoModel, BodiesAreBodies,
           \A name \in DOMAIN Operations : FittingOperation(Operations[name])
    PROVE  Spec => []AcceptedCallsReturn
  <1>1. ASSUME CallInv, AcceptedInv
        PROVE  AcceptedCallsReturn
    <2> SUFFICES ASSUME NEW t \in Threads, stage[t] = "raised",
                        answer[t].status \in 200 .. 299, Readable(answer[t].body)
                 PROVE  /\ Operations[call[t]].url = <<"/subscriptions/v2/notify">>
                        /\ Operations[call[t]].data.payment_flow = None
      BY DEF AcceptedCallsReturn
    <2>1. call[t] \in DOMAIN Operations
      BY <1>1 DEF CallInv, TypeOK
    <2>2. Operations[call[t]].success = None
      BY <1>1 DEF AcceptedInv, Accepted
    <2>3. SuccessReported(Operations[call[t]])
      BY <2>1, OperationsTraced
    <2> QED
      BY <2>2, <2>3 DEF SuccessReported
  <1> QED
    BY <1>1, CallInit, CallStep, AcceptedInit, AcceptedStep, PTL DEF Spec
=============================================================================
