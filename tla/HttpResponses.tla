--------------------------- MODULE HttpResponses ---------------------------
(***************************************************************************)
(* From an HTTP response to what the caller of BaseHttpCommand.request     *)
(* gets: the body, or one of the SDK's exceptions.  A body is a record of  *)
(* the keys that matter, or NotJson.                                       *)
(***************************************************************************)
EXTENDS CallEvents, Integers

CONSTANT NotJson

(* The classes of common/exceptions.py; the superclass of each. *)
Superclass ==
    [c \in {"BadRequest", "UnauthorizedAccess", "ForbiddenAccess", "ResourceNotFound",
            "ResourceConflict", "ResourceGone", "ResourceInvalid", "ExpectationFailed",
            "TooManyRequests"} |-> "ClientError"]

IsA(class, ancestor) ==         \* at most one step below ClientError
    class = ancestor \/ (class \in DOMAIN Superclass /\ Superclass[class] = ancestor)

(* PhonePeException.__init__: a body that cannot be parsed leaves the code  *)
(* unset and raises the very exception under construction.                  *)
PhonePeException(class, status, body) ==
    LET field(name) == IF body = NotJson THEN None ELSE Attr(body, name)
    IN  Exception(class,
            IF field("errorCode") # None THEN field("errorCode") ELSE field("code"),
            status)

NoBadRequest_Bug(status) ==     \* the range 401..499 is taken to cover 400
    CASE status = 401 -> {"UnauthorizedAccess"}
      [] status = 403 -> {"ForbiddenAccess"}
      [] status = 404 -> {"ResourceNotFound"}
      [] OTHER -> {}

(* HTTP_CODE_TO_EXCEPTION_MAPPER: the class for a status, if there is one.  *)
Mapped(status) ==
    CASE status = 400 -> {"BadRequest"}
      [] status = 401 -> {"UnauthorizedAccess"}
      [] status = 403 -> {"ForbiddenAccess"}
      [] status = 404 -> {"ResourceNotFound"}
      [] status = 409 -> {"ResourceConflict"}
      [] status = 410 -> {"ResourceGone"}
      [] status = 417 -> {"ExpectationFailed"}
      [] status = 422 -> {"ResourceInvalid"}
      [] status = 429 -> {"TooManyRequests"}
      [] OTHER -> {}

ExceptionClass(status) ==
    CASE Mapped(status) # {} -> CHOOSE c \in Mapped(status) : TRUE
      [] Mapped(status) = {} /\ status \in 401 .. 499 -> "ClientError"
      [] Mapped(status) = {} /\ status \in 500 .. 599 -> "ServerError"
      [] OTHER -> "PhonePeException"

(* What handle_response raises; None if it returns the response. *)
handle_response(status, body) ==
    IF Mapped(status) = {} /\ status \in 200 .. 299 THEN None
    ELSE PhonePeException(ExceptionClass(status), status, body)

-----------------------------------------------------------------------------
(* env.py and common/constants/base_urls.py: the host of each kind of call. *)
get_pg_base_url(env) ==
    IF env = "PRODUCTION" THEN "api.phonepe.com" ELSE "api-preprod.phonepe.com"

get_pci_pg_base_url(env) ==
    IF env = "PRODUCTION" THEN "cards.phonepe.com" ELSE "api-preprod.phonepe.com"

(* merge_dict of headers: the second dictionary wins unless it has None. *)
merge_dict(dict1, dict2) ==
    LET set == {k \in DOMAIN dict2 : dict2[k] # None}
    IN  With([k \in set |-> dict2[k]], dict1)

(* BaseClient._prepare_headers; the constant ones are left out. *)
prepare_headers(token) ==
    [Authorization |-> token, x_source_version |-> "V2"]
=============================================================================
