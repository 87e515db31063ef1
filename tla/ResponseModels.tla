--------------------------- MODULE ResponseModels ---------------------------
(***************************************************************************)
(* Decoding of response and callback bodies.  Fields that are copied as    *)
(* they are cannot fail and are left out.  What can fail or depends on a   *)
(* type tag is kept: enumerations, meta info, and the parts whose class is *)
(* looked up; such a part becomes [class, object], where class is "dict"   *)
(* if no class is known for its tag.  Undecodable stands for an exception  *)
(* (ValueError, JSONDecodeError, ...) out of from_dict.                    *)
(***************************************************************************)
EXTENDS HttpResponses, Sequences

CONSTANT Undecodable

Known(value, enumeration) == value = None \/ value \in enumeration

PgV2InstrumentType == {"UPI_COLLECT", "UPI_INTENT", "PPE_INTENT", "UPI_QR", "CARD",
                       "TOKEN", "NET_BANKING", "UPI_AUTO_PAY"}

(* The enumerations of the subscription package. *)
TermsKnown(object) ==
    /\ Known(Attr(object, "auth_workflow_type"), {"TRANSACTION", "PENNY_DROP"})
    /\ Known(Attr(object, "amount_type"), {"FIXED", "VARIABLE"})
    /\ Known(Attr(object, "frequency"),
             {"DAILY", "WEEKLY", "FORTNIGHTLY", "MONTHLY", "BIMONTHLY", "QUARTERLY",
              "HALFYEARLY", "YEARLY", "ON_DEMAND"})

RetryKnown(object) ==
    Known(Attr(object, "redemption_retry_strategy"), {"STANDARD", "CUSTOM"})

-----------------------------------------------------------------------------
(* MetaInfo: 15 user defined fields, a value is [size, plain], where plain  *)
(* says that the restricted pattern matches.  The same checks run on what   *)
(* a merchant sends and on what a response contains.                        *)
MetaInfo(udfs) ==
    IF \A i \in DOMAIN udfs :
          IF i <= 10 THEN udfs[i].size <= 256
                     ELSE udfs[i].size <= 50 /\ udfs[i].plain
      THEN udfs ELSE Undecodable

-----------------------------------------------------------------------------
(* The parts whose class a mapper chooses.                                  *)
Part(class, object) == [class |-> class, object |-> object]

Typed(mapper, object) ==
    LET type == Attr(object, "type")
    IN  IF type \in DOMAIN mapper THEN Part(mapper[type], object)
                                  ELSE Part("dict", object)

INSTRUMENT_MAPPER ==
    [ACCOUNT |-> "AccountPaymentInstrumentV2",
     NET_BANKING |-> "NetBankingPaymentInstrumentV2",
     EGV |-> "EvgPaymentInstrumentV2", WALLET |-> "WalletPaymentInstrumentV2",
     CREDIT_CARD |-> "CreditCardPaymentInstrumentV2",
     DEBIT_CARD |-> "DebitCardPaymentInstrumentV2",
     CREDIT_LINE |-> "CreditLinePaymentInstrumentV2"]

RAIL_MAPPER ==
    [UPI |-> "UpiPaymentRail", PG |-> "PgPaymentRail",
     PPI_EGV |-> "PpiEgvPaymentRail", PPI_WALLET |-> "PpiWalletPaymentRail"]

StrictInstrument_Bug(object) ==     \* an unknown tag is an error
    IF Known(Attr(object, "type"), DOMAIN INSTRUMENT_MAPPER)
      THEN Typed(INSTRUMENT_MAPPER, object) ELSE Undecodable

map_to_payment_instrument(object) == Typed(INSTRUMENT_MAPPER, object)

map_to_payment_rail(object) == Typed(RAIL_MAPPER, object)

map_to_payment_flow_response(object) ==
    LET type == Attr(object, "type")
    IN  CASE type = "SUBSCRIPTION_SETUP" ->
                IF TermsKnown(object)
                  THEN Part("SubscriptionSetupPaymentFlowResponse", object)
                  ELSE Undecodable
          [] type = "SUBSCRIPTION_REDEMPTION" ->
                IF RetryKnown(object)
                  THEN Part("SubscriptionRedemptionPaymentFlowResponse", object)
                  ELSE Undecodable
          [] OTHER -> Part("dict", object)

-----------------------------------------------------------------------------
(* The dataclasses: Undecodable as soon as one of their fields is.          *)
Whole(object) ==
    IF \E f \in DOMAIN object : object[f] = Undecodable THEN Undecodable ELSE object

Each(list, decode(_)) ==        \* None for an absent list
    IF list = None THEN None ELSE Whole([i \in DOMAIN list |-> decode(list[i])])

InstrumentCombo(object) ==
    Whole([instrument |-> map_to_payment_instrument(Attr(object, "instrument")),
           rail |-> map_to_payment_rail(Attr(object, "rail"))])

Detail(object) ==
    Whole([payment_mode |-> IF Known(Attr(object, "payment_mode"), PgV2InstrumentType)
                              THEN Attr(object, "payment_mode") ELSE Undecodable,
           instrument |-> map_to_payment_instrument(Attr(object, "instrument")),
           rail |-> map_to_payment_rail(Attr(object, "rail")),
           split_instruments |-> Each(Attr(object, "split_instruments"), InstrumentCombo)])

PaymentDetail(object) == Detail(object)
PaymentRefundDetail(object) == Detail(object)

Order_Fields(object) ==
    [meta_info |-> IF Attr(object, "meta_info") = None THEN None
                   ELSE MetaInfo(object.meta_info),
     payment_details |-> Each(Attr(object, "payment_details"), PaymentDetail),
     payment_flow |-> map_to_payment_flow_response(Attr(object, "payment_flow"))]

OrderStatusResponse(object) == Whole(Order_Fields(object))

RefundStatusResponse(object) ==
    Whole([payment_details |-> Each(Attr(object, "payment_details"), PaymentRefundDetail)])

SubscriptionStatusResponseV2(object) ==
    IF TermsKnown(object) THEN object ELSE Undecodable

CallbackData(object) ==
    IF TermsKnown(object) THEN Whole(Order_Fields(object)) ELSE Undecodable

CallbackType ==
    {"PG_ORDER_COMPLETED", "PG_ORDER_FAILED", "PG_TRANSACTION_ATTEMPT_FAILED",
     "CHECKOUT_ORDER_COMPLETED", "CHECKOUT_ORDER_FAILED",
     "CHECKOUT_TRANSACTION_ATTEMPT_FAILED",
     "PG_REFUND_COMPLETED", "PG_REFUND_FAILED", "PG_REFUND_ACCEPTED",
     "SUBSCRIPTION_SETUP_ORDER_COMPLETED", "SUBSCRIPTION_SETUP_ORDER_FAILED",
     "SUBSCRIPTION_NOTIFICATION_COMPLETED", "SUBSCRIPTION_NOTIFICATION_FAILED",
     "SUBSCRIPTION_CANCELLED", "SUBSCRIPTION_PAUSED", "SUBSCRIPTION_UNPAUSED",
     "SUBSCRIPTION_REVOKED",
     "SUBSCRIPTION_REDEMPTION_ORDER_COMPLETED", "SUBSCRIPTION_REDEMPTION_ORDER_FAILED",
     "SUBSCRIPTION_REDEMPTION_TRANSACTION_COMPLETED",
     "SUBSCRIPTION_REDEMPTION_TRANSACTION_FAILED"}

CallbackResponse(object) ==
    Whole([type |-> IF Known(Attr(object, "type"), CallbackType)
                      THEN Attr(object, "type") ELSE Undecodable,
           payload |-> IF Attr(object, "payload") = None THEN None
                       ELSE CallbackData(object.payload)])

(* response_obj.from_dict(response_data.json()); the classes not named here *)
(* have only fields that are copied.                                        *)
from_dict(response_obj, body) ==
    CASE body = NotJson -> Undecodable
      [] body # NotJson /\ response_obj = "OrderStatusResponse" -> OrderStatusResponse(body)
      [] body # NotJson /\ response_obj = "RefundStatusResponse" -> RefundStatusResponse(body)
      [] body # NotJson /\ response_obj = "SubscriptionStatusResponseV2" ->
            SubscriptionStatusResponseV2(body)
      [] OTHER -> body

-----------------------------------------------------------------------------
(* Callbacks: what validate_callback of a client does, the flow type being  *)
(* all the clients differ in.  The hash of username:password stands for     *)
(* itself.                                                                  *)
is_callback_valid(username, password, response_header) ==
    response_header = <<"sha256", username, password>>

(* error: the exception raised or None; report: the event published or None *)
Validated(flow_type, username, password, header, body) ==
    IF ~is_callback_valid(username, password, header)
      THEN [error |-> Exception("PhonePeException", None, 417), report |-> None]
    ELSE IF body = NotJson \/ CallbackResponse(body) = Undecodable
      THEN [error |-> Exception("ValueError", None, None),
            report |-> build_callback_serialization_failed_event(
                          flow_type, Exception("ValueError", None, None))]
    ELSE [error |-> None, report |-> None]
=============================================================================
