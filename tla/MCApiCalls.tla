----------------------------- MODULE MCApiCalls -----------------------------
(***************************************************************************)
(* The operations of the three clients, each called with every kind of     *)
(* request the builders make, and responses of every kind.  An argument is *)
(* a word that says what it is, so that fields cannot be confused.         *)
(***************************************************************************)
EXTENDS ApiCalls

CONSTANTS t1, t2

Standard == INSTANCE StandardCheckoutClient
Custom == INSTANCE CustomCheckoutClient
Subscription == INSTANCE SubscriptionClient

MCOrder == Order("order", "amount", None)
Refund == build_refund_request("refund", "amount", "order")

StandardOperations ==
    [standard_pay |-> Standard!pay(StandardCheckoutPayRequest_build_request(
        MCOrder, "url", "message", None, "expireAfter", None)),
     standard_sdk_order |-> Standard!create_sdk_order(build_standard_checkout_request(
        MCOrder, "url", "message", "expireAfter")),
     standard_order_status |-> Standard!get_order_status("order", TRUE),
     standard_refund_status |-> Standard!get_refund_status("refund"),
     standard_transaction_status |-> Standard!get_transaction_status("transaction"),
     standard_refund |-> Standard!refund(Refund)]

CustomOperations ==
    [pay_intent |-> Custom!pay(build_upi_intent_pay_request(
        MCOrder, "os", "scheme", "app", "expireAfter")),
     pay_vpa |-> Custom!pay(build_upi_collect_pay_via_vpa_request(
        MCOrder, "vpa", "message", "expireAfter", "os")),
     pay_phone |-> Custom!pay(build_upi_collect_pay_via_phone_number_request(
        MCOrder, "phone", "message", "expireAfter", "os")),
     pay_qr |-> Custom!pay(build_upi_qr_pay_request(MCOrder, "expireAfter")),
     pay_net_banking |-> Custom!pay(build_net_banking_pay_request(
        MCOrder, "bank", "url", "user", "expireAfter")),
     pay_token |-> Custom!pay(build_token_pay_request(
        MCOrder, "auth", "card", "url", "user", "expireAfter")),
     pay_card |-> Custom!pay(build_card_pay_request(
        MCOrder, "auth", "card", "url", "user", "expireAfter")),
     pay_flowless |-> Custom!pay(PgPaymentRequest(MCOrder, None)),
     custom_sdk_order |-> Custom!create_sdk_order(build_custom_checkout_request(
        MCOrder, "expireAfter")),
     custom_order_status |-> Custom!get_order_status("order", FALSE),
     custom_refund_status |-> Custom!get_refund_status("refund"),
     custom_transaction_status |-> Custom!get_transaction_status("transaction"),
     custom_refund |-> Custom!refund(Refund)]

SubscriptionOperations ==
    [setup_intent |-> Subscription!setup(build_subscription_setup_upi_intent(
        MCOrder, "subscription", "terms", "os", "scheme", "app", "orderExpiry", "expiry")),
     setup_collect |-> Subscription!setup(build_subscription_setup_upi_collect(
        MCOrder, "subscription", "terms", "vpa", "message", "expiry", "orderExpiry")),
     notify |-> Subscription!notify(build_subscription_notify_request(
        MCOrder, "subscription", "STANDARD", TRUE, "orderExpiry")),
     notify_flowless |-> Subscription!notify(PgPaymentRequest(MCOrder, None)),
     redeem |-> Subscription!redeem("order"),
     cancel |-> Subscription!cancel_subscription("subscription"),
     subscription_status |-> Subscription!get_subscription_status("subscription"),
     subscription_order_status |-> Subscription!get_order_status("order"),
     subscription_transaction_status |-> Subscription!get_transaction_status("transaction"),
     subscription_refund |-> Subscription!refund(Refund),
     subscription_refund_status |-> Subscription!get_refund_status("refund")]

MCOperations ==
    With(StandardOperations, With(CustomOperations, SubscriptionOperations))

(* One thread calls everything; the other gets in its way. *)
AllForOne ==
    [t \in Threads |-> IF t = t1 THEN DOMAIN MCOperations ELSE {"cancel"}]
OnlyCancel == [t \in Threads |-> {"cancel"}]

-----------------------------------------------------------------------------
Details(mode, instrument, rail) ==
    [payment_details |-> <<[payment_mode |-> mode, instrument |-> [type |-> instrument],
                            rail |-> [type |-> rail]]>>]

Split == [payment_details |-> <<[split_instruments |->
            <<[instrument |-> [type |-> "WALLET"]], [instrument |-> [type |-> "NEW"]]>>]>>]

(* User defined fields at, and just over, the limits. *)
Udfs(first, eleventh, plain) ==
    [meta_info |-> [i \in {1, 11} |->
        IF i = 1 THEN [size |-> first, plain |-> FALSE]
                 ELSE [size |-> eleventh, plain |-> plain]]]

Flow(flow) == [payment_flow |-> flow]

MCBodies ==
    [r \in {o.response_obj : o \in
                {MCOperations[name] : name \in DOMAIN MCOperations}} |->
        CASE r = "OrderStatusResponse" ->
                {NotJson, Details("CARD", "CREDIT_CARD", "PG"), Details("NEW", "ACCOUNT", "UPI"),
                 Split, Udfs(256, 50, TRUE), Udfs(257, 50, TRUE), Udfs(256, 51, TRUE),
                 Udfs(1, 50, FALSE), Flow([type |-> "NEW"]),
                 Flow([type |-> "SUBSCRIPTION_SETUP", frequency |-> "MONTHLY"]),
                 Flow([type |-> "SUBSCRIPTION_REDEMPTION", redemption_retry_strategy |-> "NEW"])}
          [] r = "RefundStatusResponse" -> {NotJson, Split, Details("UPI_QR", "NEW", "NEW")}
          [] r = "SubscriptionStatusResponseV2" ->
                {NotJson, [frequency |-> "DAILY"], [frequency |-> "NEW"]}
          [] OTHER -> {NotJson, [state |-> "PENDING"]}]

MCErrors ==
    {[status |-> s, body |-> [code |-> "DENIED"]] : s \in {400, 401}} \cup
    {[status |-> 402, body |-> [errorCode |-> "DENIED", code |-> "OTHER"]]} \cup
    {[status |-> s, body |-> NotJson] : s \in {302, 401, 404, 500}}

MCTransportErrors == {Exception("ReadTimeout", None, None)}

MCFetchErrors ==
    {Exception("ConnectionError", None, None), Exception("UnauthorizedAccess", "OAUTH", 401)}

Header(password) == <<"sha256", "user", password>>

MCCallbacks ==
    {Validated(flow_type, "user", "password", header, body) :
        flow_type \in {"PG", "PG_CHECKOUT", "SUBSCRIPTION"},
        header \in {Header("password"), Header("guess")},
        body \in {NotJson, [type |-> "PG_REFUND_FAILED", payload |-> Split],
                  [type |-> "NEW", payload |-> Split]}}
=============================================================================
