---------------------------- MODULE SignalTable ----------------------------
(***************************************************************************)
(* What sigmux.h promises its callers, with no list and no lock: a         *)
(* registration takes part in deliveries until it is unregistered; a       *)
(* delivery that finds nobody to answer has called every handler that was  *)
(* registered for its signal all along, each in its priority; and          *)
(* sigmux_unregister returns only when no delivery can call the handler    *)
(* any more.                                                               *)
(***************************************************************************)
CONSTANTS Entries,     \* registrations
          Deliveries   \* executions of sigmux_handle_signal

VARIABLES status,      \* of an entry: "free", "registered", "leaving"
          begun,       \* the deliveries under way
          due,         \* of a delivery: the matching entries registered all along
          called,      \* of a delivery: the entries whose handler it has called
          outcome,     \* of a delivery: "open", "answered", "nobody"
          waiting,     \* an unregister waits for deliveries
          waitFor      \* the deliveries it waits for

tableVars == <<status, begun, due, called, outcome, waiting, waitFor>>

TableInit ==
    /\ status = [r \in Entries |-> "free"]
    /\ begun = {} /\ waiting = FALSE /\ waitFor = {}
    /\ due = [d \in Deliveries |-> {}]
    /\ called = [d \in Deliveries |-> {}]
    /\ outcome = [d \in Deliveries |-> "open"]

\* sigmux_register takes effect.
Register(r) ==
    /\ status[r] = "free"
    /\ status' = [status EXCEPT ![r] = "registered"]
    /\ UNCHANGED <<begun, due, called, outcome, waiting, waitFor>>

\* sigmux_unregister takes effect: nobody owes the entry a call any more.
Unregister(r) ==
    /\ status[r] = "registered"
    /\ status' = [status EXCEPT ![r] = "leaving"]
    /\ due' = [d \in Deliveries |-> due[d] \ {r}]
    /\ UNCHANGED <<begun, called, outcome, waiting, waitFor>>

AwaitDeliveries ==
    /\ ~waiting /\ waiting' = TRUE /\ waitFor' = begun
    /\ UNCHANGED <<status, begun, due, called, outcome>>

DeliveriesOver ==
    /\ waiting /\ waitFor = {} /\ waiting' = FALSE
    /\ UNCHANGED <<status, begun, due, called, outcome, waitFor>>

\* sigmux_unregister returns and the registration is gone.
Release(r) ==
    /\ status[r] = "leaving"
    /\ \A d \in Deliveries : r \notin called[d]
    /\ status' = [status EXCEPT ![r] = "free"]
    /\ UNCHANGED <<begun, due, called, outcome, waiting, waitFor>>

\* A signal arrives, and the delivery looks who is registered for it.
Deliver(d) ==
    /\ d \notin begun /\ begun' = begun \cup {d}
    /\ UNCHANGED <<status, due, called, outcome, waiting, waitFor>>

LookUp(d) ==
    /\ d \in begun
    /\ \E rs \in SUBSET {r \in Entries : status[r] = "registered"} : due' = [due EXCEPT ![d] = rs]
    /\ UNCHANGED <<status, begun, called, outcome, waiting, waitFor>>

\* A handler is called, once in a delivery, while its registration exists.
Invoke(d, r) ==
    /\ d \in begun /\ outcome[d] = "open" /\ status[r] # "free" /\ r \notin called[d]
    /\ called' = [called EXCEPT ![d] = @ \cup {r}]
    /\ UNCHANGED <<status, begun, due, outcome, waiting, waitFor>>

\* A handler answered, or everybody who was due has been called in vain.
Decide(d) ==
    /\ d \in begun /\ outcome[d] = "open"
    /\ \/ called[d] # {} /\ outcome' = [outcome EXCEPT ![d] = "answered"]
       \/ due[d] \subseteq called[d] /\ outcome' = [outcome EXCEPT ![d] = "nobody"]
    /\ UNCHANGED <<status, begun, due, called, waiting, waitFor>>

\* The delivery returns, or a handler leaves it with sigmux_longjmp.
Finish(d) ==
    /\ d \in begun /\ (outcome[d] # "open" \/ called[d] # {})
    /\ begun' = begun \ {d} /\ waitFor' = waitFor \ {d}
    /\ due' = [due EXCEPT ![d] = {}] /\ called' = [called EXCEPT ![d] = {}]
    /\ outcome' = [outcome EXCEPT ![d] = "open"]
    /\ UNCHANGED <<status, waiting>>

TableNext ==
    \/ \E r \in Entries : Register(r) \/ Unregister(r) \/ Release(r)
    \/ AwaitDeliveries \/ DeliveriesOver
    \/ \E d \in Deliveries :
          \/ Deliver(d) \/ LookUp(d) \/ Decide(d) \/ Finish(d)
          \/ \E r \in Entries : Invoke(d, r)

TableSpec == TableInit /\ [][TableNext]_tableVars
=============================================================================
