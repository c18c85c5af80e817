---------------------------- MODULE ManifestService ----------------------------
(***************************************************************************)
(* What the manifest endpoint promises a client, without flights, copies,  *)
(* blobs or a cleanup: a name is served only while it is available, it     *)
(* becomes available only while some client waits for that chart, it may   *)
(* go at any time, and "not found" is said of a name that is not available *)
(* under its normal form.  ManifestRequests implements it.                 *)
(***************************************************************************)
CONSTANTS
    Clients,   \* requests that may be pending at one time
    Slots,     \* charts, by repository path and variant
    Names,     \* what a manifest may be available under
    Targets,   \* what a client may ask for
    Norm,      \* Norm[x]: the normal form of target x
    Nobody     \* no request pending

VARIABLES
    available, \* the pairs of slot and name that can be served
    pending,   \* pending[r]: what client r waits for
    answer     \* answer[r]: how the last request of client r ended

vars == <<available, pending, answer>>

Init ==
    /\ available = {}
    /\ pending = [r \in Clients |-> Nobody]
    /\ answer = [r \in Clients |-> "none"]

End(r, a) ==
    /\ pending' = [pending EXCEPT ![r] = Nobody]
    /\ answer' = [answer EXCEPT ![r] = a]

Ask(r) ==
    /\ pending[r] = Nobody
    /\ \E s \in Slots, x \in Targets :
         \/ /\ pending' = [pending EXCEPT ![r] = [slot |-> s, target |-> x]]
            /\ answer' = [answer EXCEPT ![r] = "none"]
         \/ /\ <<s, x>> \in available
            /\ End(r, "served")
    /\ UNCHANGED available

Serve(r) ==
    /\ pending[r] # Nobody
    /\ \/ <<pending[r].slot, pending[r].target>> \in available
       \/ <<pending[r].slot, Norm[pending[r].target]>> \in available
    /\ End(r, "served")
    /\ UNCHANGED available

NotFound(r) ==
    /\ pending[r] # Nobody
    /\ <<pending[r].slot, Norm[pending[r].target]>> \notin available
    /\ End(r, "notfound")
    /\ UNCHANGED available

List(r) ==
    /\ pending[r] # Nobody
    /\ End(r, "listed")
    /\ UNCHANGED available

\* One failed preparation may be the answer to several clients of a chart
Fail ==
    /\ \E S \in SUBSET {r \in Clients : pending[r] # Nobody}, a \in {"failed", "panic"} :
         /\ \A r, q \in S : pending[r].slot = pending[q].slot
         /\ pending' = [r \in Clients |-> IF r \in S THEN Nobody ELSE pending[r]]
         /\ answer' = [r \in Clients |-> IF r \in S THEN a ELSE answer[r]]
    /\ UNCHANGED available

\* A manifest is made for somebody who waits
Make ==
    /\ \E r \in Clients, n \in Names :
         /\ pending[r] # Nobody
         /\ available' = available \cup {<<pending[r].slot, n>>}
    /\ UNCHANGED <<pending, answer>>

Expire ==
    /\ available' \in SUBSET available
    /\ UNCHANGED <<pending, answer>>

Next ==
    \/ \E r \in Clients : Ask(r) \/ Serve(r) \/ NotFound(r) \/ List(r)
    \/ Fail
    \/ Make
    \/ Expire

Spec == Init /\ [][Next]_vars
=============================================================================
