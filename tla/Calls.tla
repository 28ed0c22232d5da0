---- MODULE Calls ----
(***************************************************************************)
(* The sequential C algorithms of src/Sources are called one at a time:    *)
(* Call picks a function and its arguments, the action of that function    *)
(* returns what the code computes, and the properties compare it with what *)
(* the function is meant to compute.                                       *)
(***************************************************************************)
CONSTANT Idle
VARIABLE call

Init == call = Idle

Call(f, x) == call = Idle /\ call' = [of |-> f, args |-> x]
Called(f) == call # Idle /\ call.of = f /\ "result" \notin DOMAIN call
Returned(f) == call # Idle /\ call.of = f /\ "result" \in DOMAIN call
Returns(y) == call' = [of |-> call.of, args |-> call.args, result |-> y]

Done == call # Idle /\ "result" \in DOMAIN call /\ call' = Idle
====
