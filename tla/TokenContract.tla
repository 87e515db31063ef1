--------------------------- MODULE TokenContract ---------------------------
(***************************************************************************)
(* What the token service promises its callers, whatever it does inside.   *)
(* TokenService implements it; ApiCalls is built on it.                    *)
(*                                                                         *)
(* Tokens are numbered in the order in which they are stored, 0 meaning    *)
(* none yet.  Anybody's fetch may store the next one at any time.  A       *)
(* caller gets the token stored at that moment, and is refused only if     *)
(* there is none or if it is unusable.  force_refresh_token returns        *)
(* normally only when the token whose rejection led to it has been         *)
(* replaced; else it raises.                                               *)
(***************************************************************************)
EXTENDS Integers

CONSTANTS
    Callers,        \* threads that ask for tokens
    MaxVersion      \* bound: number of tokens ever stored

VARIABLES
    version,        \* the stored token
    usable,         \* whether it has its fields
    phase,          \* what each caller is doing
    given           \* the token it got, 0 if none

tokens == <<version, usable>>
callers == <<phase, given>>

Phases == {"idle", "asking", "holding", "refused", "refreshing", "refreshed"}

Init ==
    /\ version = 0 /\ usable = FALSE
    /\ phase = [c \in Callers |-> "idle"]
    /\ given = [c \in Callers |-> 0]

Goto(c, where) == phase' = [phase EXCEPT ![c] = where]

(* The next token: stored by start(), a caller or the refresher. *)
StoreNext ==
    /\ version < MaxVersion
    /\ version' = version + 1
    /\ usable' \in BOOLEAN

Store == StoreNext /\ UNCHANGED callers

(* get_auth_token *)
Ask(c) ==
    /\ phase[c] = "idle"
    /\ Goto(c, "asking")
    /\ UNCHANGED <<tokens, given>>

Give(c) ==
    /\ phase[c] = "asking"
    /\ usable
    /\ Goto(c, "holding")
    /\ given' = [given EXCEPT ![c] = version]
    /\ UNCHANGED tokens

Refuse(c) ==
    /\ phase[c] = "asking"
    /\ ~usable
    /\ Goto(c, "refused")
    /\ UNCHANGED <<tokens, given>>

(* force_refresh_token, after a 401 from the server or the OAuth endpoint *)
Refresh(c) ==
    /\ phase[c] \in {"holding", "refused"}
    /\ Goto(c, "refreshing")
    /\ UNCHANGED <<tokens, given>>

Refreshed(c) ==
    /\ phase[c] = "refreshing"
    /\ version > given[c]
    /\ Goto(c, "refreshed")
    /\ UNCHANGED <<tokens, given>>

(* The fetch that ends a refresh normally stores its token in one step. *)
StoreAndRefreshed(c) ==
    /\ phase[c] = "refreshing"
    /\ StoreNext
    /\ Goto(c, "refreshed")
    /\ UNCHANGED given

(* The request is over, or an exception has left the caller. *)
Leave(c) ==
    /\ phase[c] \in {"holding", "refused", "refreshing", "refreshed"}
    /\ Goto(c, "idle")
    /\ given' = [given EXCEPT ![c] = 0]
    /\ UNCHANGED tokens

Next ==
    \/ Store
    \/ \E c \in Callers :
          \/ Ask(c) \/ Give(c) \/ Refuse(c) \/ Refresh(c)
          \/ Refreshed(c) \/ StoreAndRefreshed(c) \/ Leave(c)

Spec == Init /\ [][Next]_<<tokens, callers>>
=============================================================================
