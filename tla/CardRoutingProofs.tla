------------------------- MODULE CardRoutingProofs -------------------------
(***************************************************************************)
(* Where the data of cards goes, for every operation of the three clients, *)
(* every request their builders make and all arguments.                    *)
(***************************************************************************)
EXTENDS ApiCallsProofs

Standard == INSTANCE StandardCheckoutClient
Custom == INSTANCE CustomCheckoutClient
Subscription == INSTANCE SubscriptionClient

(* The requests that carry a card, and those that do not; o is the order,   *)
(* the other variables stand for the remaining arguments.                   *)
CardRequest(request) ==
    \E m, a, i, auth, card, url, user, e :
        /\ card # None
        /\ \/ request = build_card_pay_request(Order(m, a, i), auth, card, url, user, e)
           \/ request = build_token_pay_request(Order(m, a, i), auth, card, url, user, e)

CardlessRequest(request) ==
    \E m, a, i, x, y, z, e :
        LET o == Order(m, a, i)
        IN  \/ request = build_upi_intent_pay_request(o, x, y, z, e)
            \/ request = build_upi_collect_pay_via_vpa_request(o, x, y, e, z)
            \/ request = build_upi_collect_pay_via_phone_number_request(o, x, y, e, z)
            \/ request = build_upi_qr_pay_request(o, e)
            \/ request = build_net_banking_pay_request(o, x, y, z, e)

(* A PgPaymentRequest can also be made without a payment flow. *)
Flowlessly(request) ==
    \E m, a, i : request = PgPaymentRequest(Order(m, a, i), None)

(* The requests of operations other than CustomCheckoutClient.pay. *)
OtherRequest(request) ==
    \E m, a, i, x, y, z, u, v, w :
        LET o == Order(m, a, i)
        IN  \/ request = StandardCheckoutPayRequest_build_request(o, x, y, z, u, v)
            \/ request = build_standard_checkout_request(o, x, y, z)
            \/ request = build_custom_checkout_request(o, x)
            \/ request = build_subscription_setup_upi_intent(o, x, y, z, u, v, w, m)
            \/ request = build_subscription_setup_upi_collect(o, x, y, z, u, v, w)
            \/ request = build_subscription_notify_request(o, x, y, z, u)
            \/ request = build_refund_request(x, y, z)

(* Every operation of the clients with every request built for it. *)
ClientOperation(operation) ==
    \/ \E request :
          /\ CardRequest(request) \/ CardlessRequest(request) \/ Flowlessly(request)
          /\ operation = Custom!pay(request)
    \/ \E request :
          /\ OtherRequest(request) \/ Flowlessly(request)
          /\ operation \in
                {Standard!pay(request), Standard!create_sdk_order(request),
                 Standard!refund(request), Custom!create_sdk_order(request),
                 Custom!refund(request), Subscription!setup(request),
                 Subscription!notify(request), Subscription!refund(request)}
    \/ \E id, details :
          operation \in
            {Standard!get_order_status(id, details), Standard!get_refund_status(id),
             Standard!get_transaction_status(id),
             Custom!get_order_status(id, details), Custom!get_refund_status(id),
             Custom!get_transaction_status(id), Subscription!redeem(id),
             Subscription!get_subscription_status(id), Subscription!get_order_status(id),
             Subscription!get_transaction_status(id), Subscription!cancel_subscription(id),
             Subscription!get_refund_status(id)}

(* None is no Python dict, and none of the type tags that are looked for. *)
NoneIsNoDict == None # [f \in DOMAIN None |-> None[f]]
NoneIsNoTag == None \notin {"CARD", "TOKEN", "SUBSCRIPTION_SETUP"}

(* A card payment mode carries card data. *)
LEMMA CardFields ==
    ASSUME NoneIsNoDict, NEW request, CardRequest(request)
    PROVE  /\ CarriesCard(to_json(request))
           /\ Custom!UsesPciHost(request)
  <1>1. PICK m, a, i, auth, card, url, user, e :
          /\ card # None
          /\ \/ request = build_card_pay_request(Order(m, a, i), auth, card, url, user, e)
             \/ request = build_token_pay_request(Order(m, a, i), auth, card, url, user, e)
    BY DEF CardRequest
  <1> DEFINE instrument == IF request = build_card_pay_request(Order(m, a, i), auth, card, url, user, e)
                             THEN CardPaymentV2Instrument(auth, user, card)
                             ELSE TokenPaymentV2Instrument(auth, user, card)
             flow == PgPaymentFlow(instrument, MerchantUrls(url))
  <1>2. /\ request = [f \in DOMAIN request |-> request[f]]
        /\ "payment_flow" \in DOMAIN request
        /\ request.payment_flow = flow
    BY <1>1 DEF build_card_pay_request, build_token_pay_request, PgPaymentRequest, With, Order
  <1>3. /\ instrument # None /\ instrument.type \in {"CARD", "TOKEN"}
        /\ "type" \in DOMAIN instrument
        /\ \E f \in {"card_details", "token_details"} :
              f \in DOMAIN instrument /\ instrument[f] = card
    BY DEF CardPaymentV2Instrument, TokenPaymentV2Instrument, NoneIsNoDict
  <1>4. flow # None /\ "payment_mode" \in DOMAIN flow /\ flow.payment_mode = instrument
    BY DEF PgPaymentFlow, NoneIsNoDict
  <1> HIDE DEF instrument, flow
  <1>5. /\ to_json(request) # None
        /\ "payment_flow" \in DOMAIN to_json(request)
        /\ to_json(request).payment_flow = flow
    BY <1>2 DEF to_json, NoneIsNoDict
  <1>6. CarriesCard(to_json(request))
    BY <1>1, <1>3, <1>4, <1>5 DEF CarriesCard, Attr
  <1>7. Custom!UsesPciHost(request)
    BY <1>2, <1>3, <1>4 DEF Custom!UsesPciHost, Custom!Attr
  <1> QED
    BY <1>6, <1>7
(* A request of PgPaymentRequest's fields that pays with an instrument. *)
PaysWith(request, instrument, urls) ==
    /\ request = [f \in DOMAIN request |-> request[f]]
    /\ "payment_flow" \in DOMAIN request
    /\ request.payment_flow = PgPaymentFlow(instrument, urls)

(* An instrument that is no card. *)
NoCard(instrument) ==
    /\ instrument = [f \in DOMAIN instrument |-> instrument[f]]
    /\ "type" \in DOMAIN instrument /\ instrument.type \notin {"CARD", "TOKEN"}
    /\ DOMAIN instrument \cap {"card_details", "token_details"} = {}

(* No other payment mode does. *)
LEMMA CardlessFields ==
    ASSUME NoneIsNoDict, NEW request, CardlessRequest(request)
    PROVE  /\ ~CarriesCard(to_json(request))
           /\ ~Custom!UsesPciHost(request)
  <1>1. \E instrument, urls : PaysWith(request, instrument, urls) /\ NoCard(instrument)
    <2>1. PICK m, a, i, x, y, z, e :
            LET o == Order(m, a, i)
            IN  \/ request = build_upi_intent_pay_request(o, x, y, z, e)
                \/ request = build_upi_collect_pay_via_vpa_request(o, x, y, e, z)
                \/ request = build_upi_collect_pay_via_phone_number_request(o, x, y, e, z)
                \/ request = build_upi_qr_pay_request(o, e)
                \/ request = build_net_banking_pay_request(o, x, y, z, e)
      BY DEF CardlessRequest
    <2> DEFINE o == Order(m, a, i)
               vpa == CollectPaymentV2Instrument(VpaCollectPaymentDetails(x), y)
               phone == CollectPaymentV2Instrument(PhoneNumberCollectPaymentDetails(x), y)
    <2>2. CASE request = build_upi_intent_pay_request(o, x, y, z, e)
      <3>1. PaysWith(request, IntentPaymentV2Instrument(z), None)
        BY <2>2 DEF build_upi_intent_pay_request, PgPaymentRequest, With, Order, PaysWith
      <3>2. NoCard(IntentPaymentV2Instrument(z))
        BY DEF NoCard, IntentPaymentV2Instrument
      <3> QED
        BY <3>1, <3>2
    <2>3. CASE request = build_upi_collect_pay_via_vpa_request(o, x, y, e, z)
      <3>1. PaysWith(request, vpa, None)
        BY <2>3 DEF build_upi_collect_pay_via_vpa_request, PgPaymentRequest, With, Order, PaysWith
      <3>2. NoCard(vpa)
        BY DEF NoCard, CollectPaymentV2Instrument
      <3> QED
        BY <3>1, <3>2
    <2>4. CASE request = build_upi_collect_pay_via_phone_number_request(o, x, y, e, z)
      <3>1. PaysWith(request, phone, None)
        BY <2>4 DEF build_upi_collect_pay_via_phone_number_request, PgPaymentRequest,
                    With, Order, PaysWith
      <3>2. NoCard(phone)
        BY DEF NoCard, CollectPaymentV2Instrument
      <3> QED
        BY <3>1, <3>2
    <2>5. CASE request = build_upi_qr_pay_request(o, e)
      <3>1. PaysWith(request, UpiQrPaymentV2Instrument, None)
        BY <2>5 DEF build_upi_qr_pay_request, PgPaymentRequest, With, Order, PaysWith
      <3>2. NoCard(UpiQrPaymentV2Instrument)
        BY DEF NoCard, UpiQrPaymentV2Instrument
      <3> QED
        BY <3>1, <3>2
    <2>6. CASE request = build_net_banking_pay_request(o, x, y, z, e)
      <3>1. PaysWith(request, NetBankingPaymentV2Instrument(x, z), MerchantUrls(y))
        BY <2>6 DEF build_net_banking_pay_request, PgPaymentRequest, With, Order, PaysWith
      <3>2. NoCard(NetBankingPaymentV2Instrument(x, z))
        BY DEF NoCard, NetBankingPaymentV2Instrument
      <3> QED
        BY <3>1, <3>2
    <2> QED
      BY <2>1, <2>2, <2>3, <2>4, <2>5, <2>6
  <1>2. PICK instrument, urls : PaysWith(request, instrument, urls) /\ NoCard(instrument)
    BY <1>1
  <1> DEFINE flow == PgPaymentFlow(instrument, urls)
  <1>3. "payment_mode" \in DOMAIN flow /\ flow.payment_mode = instrument
    BY DEF PgPaymentFlow
  <1> HIDE DEF flow
  <1>4. "payment_flow" \in DOMAIN to_json(request) /\ to_json(request).payment_flow = flow
    BY <1>2 DEF to_json, PaysWith, flow
  <1>5. Attr(Attr(to_json(request), "payment_flow"), "payment_mode") \in {instrument, None}
    BY <1>3, <1>4 DEF Attr
  <1>6. ~CarriesCard(to_json(request))
    BY <1>2, <1>5 DEF CarriesCard, Attr, NoCard
  <1>7. flow # None /\ instrument # None
    BY <1>2 DEF flow, PgPaymentFlow, NoCard, NoneIsNoDict
  <1>8. ~Custom!UsesPciHost(request)
    BY <1>2, <1>3, <1>7 DEF Custom!UsesPciHost, Custom!Attr, NoCard, PaysWith, flow
  <1> QED
    BY <1>6, <1>8
(* Only PgPaymentFlow and the flow of a subscription have a payment mode,   *)
(* and a subscription is not set up with a card.                            *)
LEMMA OtherFields ==
    ASSUME NEW request, OtherRequest(request)
    PROVE  ~CarriesCard(to_json(request))
  <1> DEFINE Cardless(flow) ==
               "payment_mode" \in DOMAIN flow
                  => DOMAIN flow.payment_mode \cap {"card_details", "token_details"} = {}
  <1>1. "payment_flow" \in DOMAIN request => Cardless(request.payment_flow)
    <2>1. PICK m, a, i, x, y, z, u, v, w :
            LET o == Order(m, a, i)
            IN  \/ request = StandardCheckoutPayRequest_build_request(o, x, y, z, u, v)
                \/ request = build_standard_checkout_request(o, x, y, z)
                \/ request = build_custom_checkout_request(o, x)
                \/ request = build_subscription_setup_upi_intent(o, x, y, z, u, v, w, m)
                \/ request = build_subscription_setup_upi_collect(o, x, y, z, u, v, w)
                \/ request = build_subscription_notify_request(o, x, y, z, u)
                \/ request = build_refund_request(x, y, z)
      BY DEF OtherRequest
    <2> DEFINE o == Order(m, a, i)
    <2>2. CASE \/ request = StandardCheckoutPayRequest_build_request(o, x, y, z, u, v)
               \/ request = build_standard_checkout_request(o, x, y, z)
               \/ request = build_custom_checkout_request(o, x)
      BY <2>2 DEF StandardCheckoutPayRequest_build_request, build_standard_checkout_request,
                  build_custom_checkout_request, PgCheckoutPaymentFlow, With, Order
    <2>3. CASE request = build_subscription_setup_upi_intent(o, x, y, z, u, v, w, m)
      <3>1. request.payment_flow
              = SubscriptionSetupPaymentFlow(x, y, m, IntentPaymentV2Instrument(v))
        BY <2>3 DEF build_subscription_setup_upi_intent, PgPaymentRequest, With, Order
      <3> QED
        BY <3>1 DEF SubscriptionSetupPaymentFlow, IntentPaymentV2Instrument
    <2>4. CASE request = build_subscription_setup_upi_collect(o, x, y, z, u, v, w)
      <3>1. request.payment_flow
              = SubscriptionSetupPaymentFlow(x, y, v,
                    CollectPaymentV2Instrument(VpaCollectPaymentDetails(z), u))
        BY <2>4 DEF build_subscription_setup_upi_collect, PgPaymentRequest, With, Order
      <3> QED
        BY <3>1 DEF SubscriptionSetupPaymentFlow, CollectPaymentV2Instrument
    <2>5. CASE request = build_subscription_notify_request(o, x, y, z, u)
      <3>1. request.payment_flow
              = SubscriptionRedemptionPaymentFlow("SUBSCRIPTION_REDEMPTION", x, y, z)
        BY <2>5 DEF build_subscription_notify_request, PgPaymentRequest, With, Order
      <3> QED
        BY <3>1 DEF SubscriptionRedemptionPaymentFlow
    <2>6. CASE request = build_refund_request(x, y, z)
      BY <2>6 DEF build_refund_request
    <2> QED
      BY <2>1, <2>2, <2>3, <2>4, <2>5, <2>6
  <1> DEFINE sent_flow == Attr(to_json(request), "payment_flow")
  <1>2. sent_flow = None \/ Cardless(sent_flow)
    BY <1>1 DEF to_json, Attr
  <1>3. \A f \in {"card_details", "token_details"} :
           Attr(Attr(sent_flow, "payment_mode"), f) = None
    BY <1>2 DEF Attr
  <1> QED
    BY <1>3 DEF CarriesCard

(* Without a payment flow there is no card. *)
LEMMA FlowlessFields ==
    ASSUME NoneIsNoTag, NEW request, Flowlessly(request)
    PROVE  /\ ~CarriesCard(to_json(request))
           /\ ~Custom!UsesPciHost(request)
  <1>1. /\ request = [f \in DOMAIN request |-> request[f]]
        /\ "payment_flow" \in DOMAIN request /\ request.payment_flow = None
    BY DEF Flowlessly, PgPaymentRequest, With, Order
  <1>2. Attr(to_json(request), "payment_flow") = None
    BY <1>1 DEF to_json, Attr
  <1>3. Attr(Attr(to_json(request), "payment_flow"), "payment_mode") = None
    BY <1>2 DEF Attr
  <1>4. ~CarriesCard(to_json(request))
    BY <1>3 DEF CarriesCard, Attr
  <1>5. ~Custom!UsesPciHost(request)
    BY <1>1 DEF Custom!UsesPciHost, Custom!Attr, NoneIsNoTag
  <1> QED
    BY <1>4, <1>5

(* An operation uses the PCI host exactly if its request carries a card. *)
LEMMA Routed ==
    ASSUME NoneIsNoDict, NoneIsNoTag, NEW operation, ClientOperation(operation)
    PROVE  operation.pci <=> CarriesCard(operation.data)
  <1>1. CASE \E request :
               /\ CardRequest(request) \/ CardlessRequest(request) \/ Flowlessly(request)
               /\ operation = Custom!pay(request)
    <2>1. PICK request :
            /\ CardRequest(request) \/ CardlessRequest(request) \/ Flowlessly(request)
            /\ operation = Custom!pay(request)
      BY <1>1
    <2>2. /\ operation.pci = Custom!UsesPciHost(request)
          /\ operation.data = Custom!to_json(request)
      BY <2>1 DEF Custom!pay, Custom!Post, Custom!Operation
    <2>3. Custom!to_json(request) = to_json(request)
      BY DEF Custom!to_json, to_json, Custom!Attr, Attr
    <2> QED
      BY <2>1, <2>2, <2>3, CardFields, CardlessFields, FlowlessFields
  <1>2. CASE \E request :
               /\ OtherRequest(request) \/ Flowlessly(request)
               /\ operation \in
                    {Standard!pay(request), Standard!create_sdk_order(request),
                     Standard!refund(request), Custom!create_sdk_order(request),
                     Custom!refund(request), Subscription!setup(request),
                     Subscription!notify(request), Subscription!refund(request)}
    <2>1. PICK request :
            /\ OtherRequest(request) \/ Flowlessly(request)
            /\ operation \in
                 {Standard!pay(request), Standard!create_sdk_order(request),
                  Standard!refund(request), Custom!create_sdk_order(request),
                  Custom!refund(request), Subscription!setup(request),
                  Subscription!notify(request), Subscription!refund(request)}
      BY <1>2
    <2>2. CASE operation \in {Standard!pay(request), Standard!create_sdk_order(request),
                              Standard!refund(request)}
      <3>1. ~operation.pci /\ operation.data = Standard!to_json(request)
        BY <2>2 DEF Standard!pay, Standard!create_sdk_order, Standard!refund,
                    Standard!Post, Standard!Operation
      <3>2. Standard!to_json(request) = to_json(request)
        BY DEF Standard!to_json, to_json, Standard!Attr, Attr
      <3> QED
        BY <2>1, <3>1, <3>2, OtherFields, FlowlessFields
    <2>3. CASE operation \in {Custom!create_sdk_order(request), Custom!refund(request)}
      <3>1. ~operation.pci /\ operation.data = Custom!to_json(request)
        BY <2>3 DEF Custom!create_sdk_order, Custom!refund, Custom!Post, Custom!Operation
      <3>2. Custom!to_json(request) = to_json(request)
        BY DEF Custom!to_json, to_json, Custom!Attr, Attr
      <3> QED
        BY <2>1, <3>1, <3>2, OtherFields, FlowlessFields
    <2>4. CASE operation \in {Subscription!setup(request), Subscription!notify(request),
                              Subscription!refund(request)}
      <3>1. ~operation.pci /\ operation.data = Subscription!to_json(request)
        BY <2>4 DEF Subscription!setup, Subscription!notify, Subscription!refund,
                    Subscription!Versioned, Subscription!Post, Subscription!Operation
      <3>2. Subscription!to_json(request) = to_json(request)
        BY DEF Subscription!to_json, to_json, Subscription!Attr, Attr
      <3> QED
        BY <2>1, <3>1, <3>2, OtherFields, FlowlessFields
    <2> QED
      BY <2>1, <2>2, <2>3, <2>4
  <1>3. CASE \E id, details :
               operation \in
                 {Standard!get_order_status(id, details), Standard!get_refund_status(id),
                  Standard!get_transaction_status(id),
                  Custom!get_order_status(id, details), Custom!get_refund_status(id),
                  Custom!get_transaction_status(id), Subscription!redeem(id),
                  Subscription!get_subscription_status(id), Subscription!get_order_status(id),
                  Subscription!get_transaction_status(id), Subscription!cancel_subscription(id),
                  Subscription!get_refund_status(id)}
    <2>1. PICK id, details :
            operation \in
              {Standard!get_order_status(id, details), Standard!get_refund_status(id),
               Standard!get_transaction_status(id),
               Custom!get_order_status(id, details), Custom!get_refund_status(id),
               Custom!get_transaction_status(id), Subscription!redeem(id),
               Subscription!get_subscription_status(id), Subscription!get_order_status(id),
               Subscription!get_transaction_status(id), Subscription!cancel_subscription(id),
               Subscription!get_refund_status(id)}
      BY <1>3
    <2>2. CASE operation = Subscription!redeem(id)
      <3>1. /\ ~operation.pci
            /\ operation.data
                  = Subscription!to_json(Subscription!SubscriptionRedeemRequestV2(id))
        BY <2>2 DEF Subscription!redeem, Subscription!Versioned, Subscription!Post,
                    Subscription!Operation
      <3>2. Attr(operation.data, "payment_flow") = None
        BY <3>1 DEF Subscription!to_json, Subscription!SubscriptionRedeemRequestV2, Attr
      <3> QED
        BY <3>1, <3>2 DEF CarriesCard, Attr
    <2>3. CASE operation # Subscription!redeem(id)
      <3>1. ~operation.pci /\ operation.data = None
        <4>1. CASE operation \in {Standard!get_order_status(id, details),
                                  Standard!get_refund_status(id),
                                  Standard!get_transaction_status(id)}
          BY <4>1 DEF Standard!get_order_status, Standard!get_refund_status,
                      Standard!get_transaction_status, Standard!Get, Standard!Operation
        <4>2. CASE operation \in {Custom!get_order_status(id, details),
                                  Custom!get_refund_status(id),
                                  Custom!get_transaction_status(id)}
          BY <4>2 DEF Custom!get_order_status, Custom!get_refund_status,
                      Custom!get_transaction_status, Custom!Get, Custom!Operation
        <4>3. CASE operation \in {Subscription!get_subscription_status(id),
                                  Subscription!get_order_status(id),
                                  Subscription!get_transaction_status(id),
                                  Subscription!cancel_subscription(id),
                                  Subscription!get_refund_status(id)}
          BY <4>3 DEF Subscription!get_subscription_status, Subscription!get_order_status,
                      Subscription!get_transaction_status, Subscription!cancel_subscription,
                      Subscription!get_refund_status, Subscription!Versioned,
                      Subscription!Get, Subscription!Post, Subscription!Operation
        <4> QED
          BY <2>1, <2>3, <4>1, <4>2, <4>3
      <3> QED
        BY <3>1 DEF CarriesCard, Attr
    <2> QED
      BY <2>2, <2>3
  <1> QED
    BY <1>1, <1>2, <1>3 DEF ClientOperation

-----------------------------------------------------------------------------
(* A request that has been sent went to the host of its operation. *)
HostInv ==
    \A t \in Threads :
        /\ stage[t] \in {"idle", "header"} => sent[t].times = 0
        /\ sent[t].times > 0 => /\ call[t] \in DOMAIN Operations
                                /\ sent[t].host = Host(Operations[call[t]])

(* Nothing is sent yet. *)
LEMMA HostInit == Init => HostInv
  BY DEF Init, HostInv, NotSent

(* Only Send chooses a host, from the operation of its call. *)
LEMMA HostStep ==
    ASSUME CallInv, HostInv, [Next]_vars
    PROVE  HostInv'
  <1> USE DEF CallInv, TypeOK, Shape, PerThread, Goto, HostInv, Host
  <1>1. CASE TokenStored \/ UNCHANGED vars
    BY <1>1 DEF TokenStored, vars
  <1>2. ASSUME NEW t \in Threads, Begin(t)
        PROVE  HostInv'
    BY <1>2 DEF Begin
  <1>3. ASSUME NEW t \in Threads, Send(t)
        PROVE  HostInv'
    <2>1. call[t] \in DOMAIN Operations
      BY <1>3 DEF Send
    <2>2. \E h, k : sent' = [sent EXCEPT ![t] =
                       [host |-> Host(Operations[call[t]]), headers |-> h, times |-> k]]
      BY <1>3 DEF Send
    <2>3. Goto(t, "sent") /\ UNCHANGED <<env, call>>
      BY <1>3 DEF Send
    <2> QED
      BY <2>1, <2>2, <2>3
  <1>4. ASSUME NEW t \in Threads,
               \/ NoToken(t) \/ Run(t) \/ Accept(t) \/ Reject(t) \/ Lose(t)
               \/ ForceRefresh(t) \/ Refreshed(t) \/ RefreshFails(t)
               \/ Return(t) \/ Raise(t) \/ ValidateCallback(t)
        PROVE  HostInv'
    <2>1. /\ UNCHANGED <<env, call, sent>>
          /\ \/ UNCHANGED stage
             \/ \E where \in Underway \cup {"validated"} : Goto(t, where)
      BY <1>4 DEF NoToken, Run, Accept, Reject, Lose, ForceRefresh, Refreshed,
                  RefreshFails, Return, Raise, ValidateCallback, Underway
    <2> QED
      BY <2>1 DEF Underway
  <1>5. ASSUME NEW t \in Threads, End(t) \/ EndCallback(t)
        PROVE  HostInv'
    <2>1. /\ sent' = [sent EXCEPT ![t] = NotSent] /\ Goto(t, "idle")
          /\ call' = [call EXCEPT ![t] = NoCall] /\ UNCHANGED env
      BY <1>5 DEF End, EndCallback, Forget
    <2>2. NotSent.times = 0
      BY DEF NotSent
    <2> QED
      BY <2>1, <2>2
  <1> QED
    BY <1>1, <1>2, <1>3, <1>4, <1>5 DEF Next

(* Whatever the clients' operations are called with, the data of a card is  *)
(* sent to the PCI host in production, and nothing else is.                 *)
THEOREM CardsGoToPciHost ==
    ASSUME NoneIsNoDict, NoneIsNoTag,
           \A name \in DOMAIN Operations : ClientOperation(Operations[name])
    PROVE  Spec => []CardDataStaysOnPciHost
  <1>1. ASSUME HostInv, CallInv
        PROVE  CardDataStaysOnPciHost
    <2>1. \A name \in DOMAIN Operations :
             Operations[name].pci <=> CarriesCard(Operations[name].data)
      BY Routed
    <2> QED
      BY <1>1, <2>1
      DEF HostInv, CardDataStaysOnPciHost, Host, get_pci_pg_base_url, get_pg_base_url
  <1> QED
    BY <1>1, CallInit, CallStep, HostInit, HostStep, PTL DEF Spec
=============================================================================
