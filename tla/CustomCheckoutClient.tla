------------------------ MODULE CustomCheckoutClient ------------------------
(* The operations of payments/v2/custom_checkout_client.py. *)
EXTENDS ApiOperations

PAY_API == <<"/payments/v2/pay">>
REFUND_API == <<"/payments/v2/refund">>
ORDER_STATUS_API(merchant_order_id) == <<"/payments/v2/order/", merchant_order_id, "/status">>
REFUND_STATUS_API(merchant_refund_id) == <<"/payments/v2/refund/", merchant_refund_id, "/status">>
CREATE_ORDER_API == <<"/payments/v2/sdk/order">>
TRANSACTION_STATUS_API(transaction_id) ==
    <<"/payments/v2/transaction/", transaction_id, "/status">>

CardsOnly_Bug(request) ==       \* saved cards (TOKEN) are forgotten
    Attr(Attr(request.payment_flow, "payment_mode"), "type") = "CARD"

(* Card data, of a new or of a saved card, goes through the PCI host. *)
UsesPciHost(request) ==
    Attr(Attr(request.payment_flow, "payment_mode"), "type") \in {"CARD", "TOKEN"}

pay(request) ==
    LET event(state, name) ==
            build_custom_checkout_pay_event(state, name, request, PAY_API)
    IN  [Post(PAY_API, to_json(request), "PgPaymentResponse",
              event("SUCCESS", "PAY_SUCCESS"), event("FAILED", "PAY_FAILED")) EXCEPT
            !.pci = UsesPciHost(request),
            !.headers = IF request.device_os = None THEN <<>>
                        ELSE [x_device_os |-> request.device_os]]

get_order_status(merchant_order_id, details) ==
    LET url == ORDER_STATUS_API(merchant_order_id)
        event(state, name) ==
            build_order_status_event(state, name, merchant_order_id, "PG", url)
    IN  [Get(url, "OrderStatusResponse", event("SUCCESS", "ORDER_STATUS_SUCCESS"),
             event("FAILED", "ORDER_STATUS_FAILED")) EXCEPT !.details = details]

get_refund_status(merchant_refund_id) ==
    LET url == REFUND_STATUS_API(merchant_refund_id)
        event(state, name) ==
            build_refund_status_event(state, name, merchant_refund_id, "PG", url)
    IN  Get(url, "RefundStatusResponse",
            event("SUCCESS", "REFUND_STATUS_SUCCESS"), event("FAILED", "REFUND_STATUS_FAILED"))

get_transaction_status(transaction_id) ==
    LET url == TRANSACTION_STATUS_API(transaction_id)
        event(state, name) ==
            build_transaction_status_event(state, name, transaction_id, "PG", url)
    IN  Get(url, "OrderStatusResponse", event("SUCCESS", "TRANSACTION_STATUS_SUCCESS"),
            event("FAILED", "TRANSACTION_STATUS_FAILED"))

refund(request) ==
    LET event(state, name) == build_refund_event(state, name, request, "PG", REFUND_API)
    IN  Post(REFUND_API, to_json(request), "RefundResponse",
             event("SUCCESS", "REFUND_SUCCESS"), event("FAILED", "REFUND_FAILED"))

create_sdk_order(request) ==
    LET event(state, name) ==
            build_create_sdk_order_event(state, name, request, "PG", CREATE_ORDER_API)
    IN  Post(CREATE_ORDER_API, to_json(request), "CreateSdkOrderResponse",
             event("SUCCESS", "CREATE_SDK_ORDER_SUCCESS"),
             event("FAILED", "CREATE_SDK_ORDER_FAILED"))
=============================================================================
