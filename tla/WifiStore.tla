------------------------------ MODULE WifiStore ------------------------------
(***************************************************************************)
(* What the wifi_* operations of pispot-authd promise: one store of        *)
(* networks that each request reads or changes in a single step, and that  *)
(* a crash leaves as some completed request left it.  WifiConfig, where    *)
(* the store is a file replaced through a temporary, implements it as long *)
(* as requests come one at a time.                                         *)
(***************************************************************************)
EXTENDS WifiDoc

CONSTANT Conn   \* the connections the daemon accepts, one request each

VARIABLES
    store,      \* the contents of the configuration
    phase,      \* how far each connection's request has got
    req,        \* the request of each connection
    answer      \* the reply computed for each connection

svars == <<store, phase, req, answer>>

Phase == {"new", "open", "answered", "done", "gone"}

StoreInit ==
    /\ store = InitFile
    /\ phase = [c \in Conn |-> "new"]
    /\ req = [c \in Conn |-> [op |-> "list", ssid |-> Blank]]
    /\ answer = [c \in Conn |-> NoAnswer]

\* A client sends its request.
Begin(c, q) ==
    /\ phase[c] = "new"
    /\ phase' = [phase EXCEPT ![c] = "open"]
    /\ req' = [req EXCEPT ![c] = q]
    /\ UNCHANGED <<store, answer>>

Settle(c, a) ==
    /\ phase[c] = "open"
    /\ phase' = [phase EXCEPT ![c] = "answered"]
    /\ answer' = [answer EXCEPT ![c] = a]
    /\ UNCHANGED req

\* The three ways a request takes effect at once, and the failure that has none.
ListStore(c) ==
    /\ req[c].op = "list"
    /\ Settle(c, Listed(Nets(store)))
    /\ UNCHANGED store

Decline(c) ==
    /\ Invalid(req[c]) \/ Refused(store, req[c])
    /\ Settle(c, Declined)
    /\ UNCHANGED store

Commit(c) ==
    /\ req[c].op # "list"
    /\ ~Invalid(req[c]) /\ ~Refused(store, req[c])
    /\ store' = Edited(store, req[c])
    /\ Settle(c, Done)

Fail(c) ==
    /\ Settle(c, IOError)
    /\ UNCHANGED store

Deliver(c) ==
    /\ phase[c] = "answered"
    /\ phase' = [phase EXCEPT ![c] = "done"]
    /\ UNCHANGED <<store, req, answer>>

\* The daemon dies: requests in flight are never answered.
Die ==
    phase' = [c \in Conn |-> IF phase[c] \in {"open", "answered"} THEN "gone"
                                                                  ELSE phase[c]]
    /\ UNCHANGED <<store, req, answer>>

StoreNext ==
    \/ \E c \in Conn : \/ \E q \in Request : Begin(c, q)
                       \/ ListStore(c) \/ Decline(c) \/ Commit(c) \/ Fail(c)
                       \/ Deliver(c)
    \/ Die

StoreSpec == StoreInit /\ [][StoreNext]_svars
=============================================================================
