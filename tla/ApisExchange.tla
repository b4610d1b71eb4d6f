---------------------------- MODULE ApisExchange ----------------------------
(***************************************************************************)
(* What a caller may rely on when it asks APIS to create something over an *)
(* unreliable network: its request is carried out at most once; when it is *)
(* told that it is done, it was carried out; when it is told that it was   *)
(* refused, it was not and will not be.  Being told nothing for certain    *)
(* leaves both open, for later too.                                        *)
(***************************************************************************)
CONSTANT Callers

VARIABLES
  made,     \* the callers whose request has been carried out
  told      \* what each caller has been told

exchangeVars == <<made, told>>

Tidings == {"nothing", "done", "refused", "unknown"}

Init == made = {} /\ told = [c \in Callers |-> "nothing"]

Make(c) ==
  /\ c \notin made
  /\ told[c] \in {"nothing", "unknown"}
  /\ made' = made \cup {c}
  /\ UNCHANGED told

Tell(c) ==
  /\ told[c] = "nothing"
  /\ \E t \in {"unknown", IF c \in made THEN "done" ELSE "refused"} :
       told' = [told EXCEPT ![c] = t]
  /\ UNCHANGED made

Next == \E c \in Callers : Make(c) \/ Tell(c)

Spec == Init /\ [][Next]_exchangeVars
=============================================================================
