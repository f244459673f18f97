------------------------ MODULE HandlerTransactions ------------------------
(***************************************************************************)
(* What the session dependency promises to a request that writes, without  *)
(* trace ids, sessions, statements or errors: its work is committed in one *)
(* step or never, before it is answered and not after that, and the answer *)
(* says which, unless the commit itself was in doubt.                      *)
(*                                                                         *)
(* The promise is for requests that overlap no other of their trace id; it *)
(* ends with the first overlap.  OrderPlacement, PaymentNotifications and  *)
(* Catalog rely on it where they commit or roll back as one step.          *)
(***************************************************************************)
CONSTANT Requests

VARIABLES overlapped,   \* the requests that nothing is promised to
          committed,    \* those of the others whose work is committed
          told          \* what each of the others has been told

vars == <<overlapped, committed, told>>

Init == /\ overlapped = {}
        /\ committed = {}
        /\ told = [r \in Requests |-> "nothing"]

Waiting(r) == r \notin overlapped /\ told[r] = "nothing"

Commit(r) ==
  /\ Waiting(r) /\ r \notin committed
  /\ committed' = committed \cup {r}
  /\ UNCHANGED <<overlapped, told>>

Tell(r, outcome) ==
  /\ Waiting(r)
  /\ outcome = "success" => r \in committed
  /\ outcome = "failure" => r \notin committed
  /\ told' = [told EXCEPT ![r] = outcome]
  /\ UNCHANGED <<overlapped, committed>>

\* Only requests that have no answer yet can come to overlap.
Overlap(S) ==
  /\ \A r \in S : told[r] = "nothing"
  /\ overlapped' = overlapped \cup S
  /\ committed' = committed \ S
  /\ UNCHANGED told

Next ==
  \/ \E r \in Requests : Commit(r)
  \/ \E r \in Requests, outcome \in {"success", "failure", "doubt"} : Tell(r, outcome)
  \/ \E S \in SUBSET Requests : Overlap(S)

Spec == Init /\ [][Next]_vars
=============================================================================
