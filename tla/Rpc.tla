-------------------------------- MODULE Rpc --------------------------------
(***************************************************************************)
(* What the client library promises to its caller: a call that waits for   *)
(* an answer returns at most once, with the answer to its own request, and *)
(* there is one such call at a time.  Module Client implements this.       *)
(***************************************************************************)
CONSTANT NoCall

VARIABLES
  asked,     \* the call that waits for its answer, or NoCall
  returned   \* the answers of the calls that returned, by call

vars == <<asked, returned>>

Init ==
  /\ asked = NoCall
  /\ returned = [n \in {} |-> NoCall]

(* A call is made while none is waiting, and never again. *)
Ask ==
  /\ asked = NoCall
  /\ asked' # NoCall
  /\ asked' \notin DOMAIN returned
  /\ UNCHANGED returned

(* The answer is named by the request it answers. *)
Return ==
  /\ asked # NoCall
  /\ returned' = [n \in DOMAIN returned \cup {asked} |->
                    IF n = asked THEN asked ELSE returned[n]]
  /\ asked' = NoCall

Next == Ask \/ Return

Spec == Init /\ [][Next]_vars
=============================================================================
