------------------------- MODULE SubscriptionClient -------------------------
(***************************************************************************)
(* The operations of subscription/v2/subscription_client.py.  All of them  *)
(* send the SDK's version in place of the API's.                           *)
(***************************************************************************)
EXTENDS ApiOperations

SETUP_API == <<"/subscriptions/v2/setup">>
NOTIFY_API == <<"/subscriptions/v2/notify">>
REDEEM_API == <<"/subscriptions/v2/redeem">>
SUBSCRIPTION_STATUS_API(merchant_subscription_id) ==
    <<"/subscriptions/v2/", merchant_subscription_id, "/status">>
ORDER_STATUS_API(merchant_order_id) ==
    <<"/subscriptions/v2/order/", merchant_order_id, "/status">>
CANCEL_SUBSCRIPTION_API(merchant_subscription_id) ==
    <<"/subscriptions/v2/", merchant_subscription_id, "/cancel">>
TRANSACTION_STATUS_API(transaction_id) ==
    <<"/subscriptions/v2/transaction/", transaction_id, "/status">>
REFUND_API == <<"/payments/v2/refund">>
REFUND_STATUS_API(merchant_refund_id) ==
    <<"/payments/v2/refund/", merchant_refund_id, "/status">>

Versioned(operation) == [operation EXCEPT !.headers = [x_source_version |-> "SDK"]]

setup(request) ==
    LET event(state, name) == build_subscription_setup_event(state, name, request, SETUP_API)
    IN  Versioned(Post(SETUP_API, to_json(request), "PgPaymentResponse",
            event("SUCCESS", "SETUP_SUCCESS"), event("FAILED", "SETUP_FAILED")))

notify(request) ==
    LET event(state, name) == build_subscription_notify_event(state, name, request, NOTIFY_API)
    IN  Versioned(Post(NOTIFY_API, to_json(request), "PgPaymentResponse",
            event("SUCCESS", "NOTIFY_SUCCESS"), event("FAILED", "NOTIFY_FAILED")))

SubscriptionRedeemRequestV2(merchant_order_id) == [merchant_order_id |-> merchant_order_id]

redeem(merchant_order_id) ==
    LET event(state, name) ==
            build_subscription_redeem_event(state, name, merchant_order_id, REDEEM_API)
    IN  Versioned(Post(REDEEM_API, to_json(SubscriptionRedeemRequestV2(merchant_order_id)),
            "SubscriptionRedeemResponseV2",
            event("SUCCESS", "REDEEM_SUCCESS"), event("FAILED", "REDEEM_FAILED")))

get_subscription_status(merchant_subscription_id) ==
    LET url == SUBSCRIPTION_STATUS_API(merchant_subscription_id)
        event(state, name) ==
            build_subscription_event(state, name, merchant_subscription_id, url)
    IN  Versioned(Get(url, "SubscriptionStatusResponseV2",
            event("SUCCESS", "SUBSCRIPTION_STATUS_SUCCESS"),
            event("FAILED", "SUBSCRIPTION_STATUS_FAILED")))

get_order_status(merchant_order_id) ==
    LET url == ORDER_STATUS_API(merchant_order_id)
        event(state, name) ==
            build_order_status_event(state, name, merchant_order_id, "SUBSCRIPTION", url)
    IN  Versioned(Get(url, "OrderStatusResponse",
            event("SUCCESS", "ORDER_STATUS_SUCCESS"), event("FAILED", "ORDER_STATUS_FAILED")))

get_transaction_status(transaction_id) ==
    LET url == TRANSACTION_STATUS_API(transaction_id)
        event(state, name) ==
            build_transaction_status_event(state, name, transaction_id, "SUBSCRIPTION", url)
    IN  Versioned(Get(url, "OrderStatusResponse",
            event("SUCCESS", "TRANSACTION_STATUS_SUCCESS"),
            event("FAILED", "TRANSACTION_STATUS_FAILED")))

cancel_subscription(merchant_subscription_id) ==
    LET url == CANCEL_SUBSCRIPTION_API(merchant_subscription_id)
        event(state, name) ==
            build_subscription_event(state, name, merchant_subscription_id, url)
    IN  Versioned(Post(url, None, None,
            event("SUCCESS", "CANCEL_SUCCESS"), event("FAILED", "CANCEL_FAILED")))

refund(request) ==
    LET event(state, name) ==
            build_refund_event(state, name, request, "SUBSCRIPTION", REFUND_API)
    IN  Versioned(Post(REFUND_API, to_json(request), "RefundResponse",
            event("SUCCESS", "REFUND_SUCCESS"), event("FAILED", "REFUND_FAILED")))

get_refund_status(merchant_refund_id) ==
    LET url == REFUND_STATUS_API(merchant_refund_id)
        event(state, name) ==
            build_refund_status_event(state, name, merchant_refund_id, "SUBSCRIPTION", url)
    IN  Versioned(Get(url, "RefundStatusResponse",
            event("SUCCESS", "REFUND_STATUS_SUCCESS"), event("FAILED", "REFUND_STATUS_FAILED")))
=============================================================================
