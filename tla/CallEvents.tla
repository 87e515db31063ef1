----------------------------- MODULE CallEvents -----------------------------
(***************************************************************************)
(* The events by which a client reports what became of a call, one         *)
(* definition per function of common/events/event_builder.py.  An          *)
(* event_state is "SUCCESS" or "FAILED".  What is known only when the call *)
(* fails, the exception, is added by populate_phonepe_exception_fields.    *)
(* The time and SDK fields, the same in every event, are left out, and so  *)
(* are texts (messages and representations).                               *)
(***************************************************************************)
EXTENDS PaymentRequests

(* An exception as the event builders see it: an exception that is no       *)
(* PhonePeException has no code and no status.                              *)
Exception(class, code, http_status_code) ==
    [class |-> class, code |-> code, http_status_code |-> http_status_code]

EventData(event_state, flow_type, api_path) ==
    [event_state |-> event_state, flow_type |-> flow_type, api_path |-> api_path,
     amount |-> None, merchant_refund_id |-> None, transaction_id |-> None,
     payment_instrument |-> None, original_merchant_order_id |-> None,
     expire_after |-> None, target_app |-> None, device_context |-> None,
     merchant_subscription_id |-> None, subscription_expire_at |-> None,
     order_expire_at |-> None, exception_class |-> None,
     exception_code |-> None, exception_http_status_code |-> None]

BaseEvent(event_name, merchant_order_id, data) ==
    [event_name |-> event_name, merchant_order_id |-> merchant_order_id, data |-> data]

populate_phonepe_exception_fields(event, exception) ==
    [event EXCEPT !.data.exception_class = exception.class,
                  !.data.exception_code = exception.code,
                  !.data.exception_http_status_code = exception.http_status_code]

-----------------------------------------------------------------------------
build_standard_checkout_pay_event(event_state, event_name, request, api_path) ==
    BaseEvent(event_name, request.merchant_order_id,
        [EventData(event_state, "PG_CHECKOUT", api_path) EXCEPT
            !.amount = request.amount,
            !.expire_after = request.expire_after])

build_custom_checkout_pay_event(event_state, event_name, request, api_path) ==
    LET payment_mode == Attr(request.payment_flow, "payment_mode")
    IN  BaseEvent(event_name, request.merchant_order_id,
            [EventData(event_state, "PG", api_path) EXCEPT
                !.amount = request.amount,
                !.payment_instrument = Attr(payment_mode, "type"),
                !.target_app = Attr(payment_mode, "target_app"),
                !.expire_after = request.expire_after,
                !.device_context = request.device_context])

build_order_status_event(event_state, event_name, merchant_order_id, flow_type, api_path) ==
    BaseEvent(event_name, merchant_order_id, EventData(event_state, flow_type, api_path))

RefundForOrder_Bug(event_state, event_name, request, flow_type, api_path) ==
    BaseEvent(event_name, request.merchant_refund_id,       \* the wrong id
        [EventData(event_state, flow_type, api_path) EXCEPT
            !.amount = request.amount,
            !.merchant_refund_id = request.merchant_refund_id])

build_refund_event(event_state, event_name, request, flow_type, api_path) ==
    BaseEvent(event_name, request.original_merchant_order_id,
        [EventData(event_state, flow_type, api_path) EXCEPT
            !.amount = request.amount,
            !.merchant_refund_id = request.merchant_refund_id,
            !.original_merchant_order_id = request.original_merchant_order_id])

build_refund_status_event(event_state, event_name, merchant_refund_id, flow_type, api_path) ==
    BaseEvent(event_name, None,
        [EventData(event_state, flow_type, api_path) EXCEPT
            !.merchant_refund_id = merchant_refund_id])

build_create_sdk_order_event(event_state, event_name, request, flow_type, api_path) ==
    BaseEvent(event_name, request.merchant_order_id,
        [EventData(event_state, flow_type, api_path) EXCEPT
            !.amount = request.amount,
            !.expire_after = request.expire_after])

build_transaction_status_event(event_state, event_name, transaction_id, flow_type, api_path) ==
    BaseEvent(event_name, None,
        [EventData(event_state, flow_type, api_path) EXCEPT
            !.transaction_id = transaction_id])

build_subscription_setup_event(event_state, event_name, request, api_path) ==
    LET flow == request.payment_flow
        setup == Attr(flow, "type") = "SUBSCRIPTION_SETUP"
        data == [EventData(event_state, "SUBSCRIPTION", api_path) EXCEPT
                    !.order_expire_at = request.expire_at,
                    !.device_context = request.device_context,
                    !.amount = request.amount]
    IN  BaseEvent(event_name, request.merchant_order_id,
            IF ~setup THEN data
            ELSE [data EXCEPT
                    !.payment_instrument = Attr(flow.payment_mode, "type"),
                    !.target_app = Attr(flow.payment_mode, "target_app"),
                    !.subscription_expire_at = flow.expire_at,
                    !.merchant_subscription_id = flow.merchant_subscription_id])

(* The subscription id is read from a new flow object that knows only the  *)
(* type.  Without a flow there is no type to read: AttributeError, and no  *)
(* event, which is represented by None.                                    *)
build_subscription_notify_event(event_state, event_name, request, api_path) ==
    IF request.payment_flow = None THEN None
    ELSE LET flow == SubscriptionRedemptionPaymentFlow(request.payment_flow.type, None, None, None)
         IN  BaseEvent(event_name, request.merchant_order_id,
                [EventData(event_state, "SUBSCRIPTION", api_path) EXCEPT
                    !.amount = request.amount,
                    !.order_expire_at = request.expire_at,
                    !.merchant_subscription_id = flow.merchant_subscription_id])

build_subscription_redeem_event(event_state, event_name, merchant_order_id, api_path) ==
    BaseEvent(event_name, merchant_order_id, EventData(event_state, "SUBSCRIPTION", api_path))

build_subscription_event(event_state, event_name, merchant_subscription_id, api_path) ==
    BaseEvent(event_name, None,
        [EventData(event_state, "SUBSCRIPTION", api_path) EXCEPT
            !.merchant_subscription_id = merchant_subscription_id])

-----------------------------------------------------------------------------
(* The event of a callback; those of the token service (OAUTH_FETCH_FAILED) *)
(* tell nothing of a call.                                                  *)
build_callback_serialization_failed_event(flow_type, exception) ==
    populate_phonepe_exception_fields(
        BaseEvent("CALLBACK_SERIALIZATION_FAILED", None,
                  EventData("FAILED", flow_type, None)), exception)
=============================================================================
