--------------------------- MODULE PaymentRequests ---------------------------
(***************************************************************************)
(* The request objects a merchant hands to a client and the static methods *)
(* that build them.  A dataclass is a record, a field that was not given   *)
(* is None.  The arguments every builder passes on unchanged (order id,    *)
(* amount, meta info) come as one record, order; constraints and           *)
(* disable_payment_retry, which some builders pass on and nothing in the   *)
(* SDK reads, are left out.                                                *)
(***************************************************************************)

CONSTANT None       \* Python's None

(* getattr(object, name, None) *)
Attr(object, name) ==
    IF object # None /\ name \in DOMAIN object THEN object[name] ELSE None

Order(merchant_order_id, amount, meta_info) ==
    [merchant_order_id |-> merchant_order_id, amount |-> amount, meta_info |-> meta_info]

With(fields, others) ==         \* a record with the fields of both
    [f \in DOMAIN fields \cup DOMAIN others |->
        IF f \in DOMAIN fields THEN fields[f] ELSE others[f]]

-----------------------------------------------------------------------------
(* Parts of a request.                                                      *)

DeviceContext(device_os, merchant_callback_scheme) ==
    [device_os |-> device_os, merchant_callback_scheme |-> merchant_callback_scheme]

MerchantUrls(redirect_url) == [redirect_url |-> redirect_url]

PgPaymentFlow(payment_mode, merchant_urls) ==
    [type |-> "PG", payment_mode |-> payment_mode, merchant_urls |-> merchant_urls]

PgCheckoutPaymentFlow(message, merchant_urls, payment_mode_config) ==
    [type |-> "PG_CHECKOUT", message |-> message, merchant_urls |-> merchant_urls,
     payment_mode_config |-> payment_mode_config]

(* terms: workflow, amount type, frequency and maximal amount *)
SubscriptionSetupPaymentFlow(merchant_subscription_id, terms, expire_at, payment_mode) ==
    [type |-> "SUBSCRIPTION_SETUP", merchant_subscription_id |-> merchant_subscription_id,
     terms |-> terms, expire_at |-> expire_at, payment_mode |-> payment_mode]

SubscriptionRedemptionPaymentFlow(type, merchant_subscription_id, retry, auto_debit) ==
    [type |-> type, merchant_subscription_id |-> merchant_subscription_id,
     redemption_retry_strategy |-> retry, auto_debit |-> auto_debit]

IntentPaymentV2Instrument(target_app) ==
    [type |-> "UPI_INTENT", target_app |-> target_app]

CollectPaymentV2Instrument(details, message) ==
    [type |-> "UPI_COLLECT", details |-> details, message |-> message]

VpaCollectPaymentDetails(vpa) == [type |-> "VPA", vpa |-> vpa]

PhoneNumberCollectPaymentDetails(phone_number) ==
    [type |-> "PHONE_NUMBER", phone_number |-> phone_number]

UpiQrPaymentV2Instrument == [type |-> "UPI_QR"]

NetBankingPaymentV2Instrument(bank_id, merchant_user_id) ==
    [type |-> "NET_BANKING", bank_id |-> bank_id, merchant_user_id |-> merchant_user_id]

(* card: what the customer's card is known by, encrypted *)
TokenPaymentV2Instrument(auth_mode, merchant_user_id, card) ==
    [type |-> "TOKEN", auth_mode |-> auth_mode, merchant_user_id |-> merchant_user_id,
     token_details |-> card]

CardPaymentV2Instrument(auth_mode, merchant_user_id, card) ==
    [type |-> "CARD", auth_mode |-> auth_mode, merchant_user_id |-> merchant_user_id,
     card_details |-> card]

-----------------------------------------------------------------------------
(* PgPaymentRequest, for the custom checkout and the subscription client.   *)

PgPaymentRequest(order, payment_flow) ==
    With(order, [payment_flow |-> payment_flow, device_context |-> None,
                 device_os |-> None, expire_after |-> None, expire_at |-> None])

build_upi_intent_pay_request(order, device_os, scheme, target_app, expire_after) ==
    [PgPaymentRequest(order, PgPaymentFlow(IntentPaymentV2Instrument(target_app), None))
        EXCEPT !.expire_after = expire_after,
               !.device_context = DeviceContext(device_os, scheme)]

build_upi_collect_pay_via_vpa_request(order, vpa, message, expire_after, device_os) ==
    [PgPaymentRequest(order, PgPaymentFlow(
            CollectPaymentV2Instrument(VpaCollectPaymentDetails(vpa), message), None))
        EXCEPT !.expire_after = expire_after, !.device_os = device_os]

build_upi_collect_pay_via_phone_number_request(order, number, message, expire_after, device_os) ==
    [PgPaymentRequest(order, PgPaymentFlow(
            CollectPaymentV2Instrument(PhoneNumberCollectPaymentDetails(number), message), None))
        EXCEPT !.expire_after = expire_after, !.device_os = device_os]

build_upi_qr_pay_request(order, expire_after) ==
    [PgPaymentRequest(order, PgPaymentFlow(UpiQrPaymentV2Instrument, None))
        EXCEPT !.expire_after = expire_after]

build_net_banking_pay_request(order, bank_id, redirect_url, user, expire_after) ==
    [PgPaymentRequest(order, PgPaymentFlow(
            NetBankingPaymentV2Instrument(bank_id, user), MerchantUrls(redirect_url)))
        EXCEPT !.expire_after = expire_after]

build_token_pay_request(order, auth_mode, card, redirect_url, user, expire_after) ==
    [PgPaymentRequest(order, PgPaymentFlow(
            TokenPaymentV2Instrument(auth_mode, user, card), MerchantUrls(redirect_url)))
        EXCEPT !.expire_after = expire_after]

build_card_pay_request(order, auth_mode, card, redirect_url, user, expire_after) ==
    [PgPaymentRequest(order, PgPaymentFlow(
            CardPaymentV2Instrument(auth_mode, user, card), MerchantUrls(redirect_url)))
        EXCEPT !.expire_after = expire_after]

(* order_end and end: when the order and the subscription expire *)
build_subscription_setup_upi_intent(order, id, terms, os, scheme, app, order_end, end) ==
    [PgPaymentRequest(order, SubscriptionSetupPaymentFlow(id, terms, end,
            IntentPaymentV2Instrument(app)))
        EXCEPT !.expire_at = order_end, !.device_context = DeviceContext(os, scheme)]

build_subscription_setup_upi_collect(order, id, terms, vpa, message, end, order_end) ==
    [PgPaymentRequest(order, SubscriptionSetupPaymentFlow(id, terms, end,
            CollectPaymentV2Instrument(VpaCollectPaymentDetails(vpa), message)))
        EXCEPT !.expire_at = order_end]

build_subscription_notify_request(order, subscription, retry, auto_debit, expire_at) ==
    [PgPaymentRequest(order, SubscriptionRedemptionPaymentFlow(
            "SUBSCRIPTION_REDEMPTION", subscription, retry, auto_debit))
        EXCEPT !.expire_at = expire_at]

-----------------------------------------------------------------------------
(* The other requests.                                                      *)

StandardCheckoutPayRequest_build_request(order, redirect_url, message, modes, expire_after, prefill) ==
    With(order, [payment_flow |-> PgCheckoutPaymentFlow(message, MerchantUrls(redirect_url), modes),
                 expire_after |-> expire_after,
                 prefill_user_login_details |-> prefill])

build_standard_checkout_request(order, redirect_url, message, expire_after) ==
    With(order, [payment_flow |-> PgCheckoutPaymentFlow(message, MerchantUrls(redirect_url), None),
                 expire_after |-> expire_after])

build_custom_checkout_request(order, expire_after) ==
    With(order, [payment_flow |-> PgCheckoutPaymentFlow(None, None, None),
                 expire_after |-> expire_after])

build_refund_request(merchant_refund_id, amount, original_merchant_order_id) ==
    [merchant_refund_id |-> merchant_refund_id, amount |-> amount,
     original_merchant_order_id |-> original_merchant_order_id]

(* to_json of any of them.  device_os travels as a header only, and login   *)
(* details that were not given are left out; other absent fields are null.  *)
to_json(request) ==
    LET left_out == {"device_os"} \cup
            (IF Attr(request, "prefill_user_login_details") = None
               THEN {"prefill_user_login_details"} ELSE {})
    IN  [f \in DOMAIN request \ left_out |-> request[f]]
=============================================================================
