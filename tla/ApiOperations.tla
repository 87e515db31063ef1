--------------------------- MODULE ApiOperations ---------------------------
(***************************************************************************)
(* What the operations of the three clients have in common: each hands one *)
(* request to BaseClient._request_with_token_invalidation and publishes    *)
(* one event, for success or for failure.  An operation is described by    *)
(* that request and by its two events; ApiCalls runs it.                   *)
(***************************************************************************)
EXTENDS CallEvents

(* A url is the sequence of its parts.  headers are those of the client,    *)
(* pci says that the PCI command is used.  response_obj and data may be     *)
(* None.  An event is None if building it raises.                           *)
Operation(method, url, data, response_obj, success, failure) ==
    [method |-> method, url |-> url, data |-> data, response_obj |-> response_obj,
     success |-> success, failure |-> failure,
     headers |-> <<>>, pci |-> FALSE, details |-> None]

Get(url, response_obj, success, failure) ==
    Operation("GET", url, None, response_obj, success, failure)

Post(url, data, response_obj, success, failure) ==
    Operation("POST", url, data, response_obj, success, failure)
=============================================================================
