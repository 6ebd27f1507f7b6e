------------------------------ MODULE OncePerKey ------------------------------
(***************************************************************************)
(* What an Idempotency-Key promises a merchant, without saying how: each    *)
(* key is bound to at most one payment and one request body, for good, and  *)
(* a request is told about a payment only if it asked for that key with     *)
(* that body, after the payment was recorded.                               *)
(***************************************************************************)
CONSTANTS Request, Key, Body, None

VARIABLES
  asked,   \* the key and the body of each request
  record,  \* what each key is bound to
  told     \* the payment each request was told about

vars == <<asked, record, told>>

Nothing == [payment |-> None, body |-> None]

Init ==
  /\ asked \in [Request -> [key : Key, body : Body]]
  /\ record = [k \in Key |-> Nothing]
  /\ told = [r \in Request |-> None]

(* A request's payment becomes the payment of its key. *)
Bind(r) ==
  /\ record[asked[r].key] = Nothing
  /\ record' = [record EXCEPT ![asked[r].key] =
                  [payment |-> r, body |-> asked[r].body]]
  /\ UNCHANGED <<asked, told>>

(* A request learns the payment its key is bound to. *)
Tell(r) ==
  /\ told[r] = None
  /\ record[asked[r].key] # Nothing
  /\ record[asked[r].key].body = asked[r].body
  /\ told' = [told EXCEPT ![r] = record[asked[r].key].payment]
  /\ UNCHANGED <<asked, record>>

Next == \E r \in Request : Bind(r) \/ Tell(r)

Spec == Init /\ [][Next]_vars
=============================================================================
