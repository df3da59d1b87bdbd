------------------------------- MODULE EnvStore -------------------------------
(***************************************************************************)
(* What setenv promises, as fw_setenv does: one variable changes and no    *)
(* other.  While a request is being served the store may become            *)
(* unreadable, and stay so when the request is cut short; what is readable *)
(* is the old contents or the new.                                         *)
(***************************************************************************)
CONSTANTS Keys, Values, Unset, Lost

VARIABLES
  env,    \* name -> value, or Lost
  req     \* the request being served: [key, val, base], or <<>>

storeVars == <<env, req>>

Readable == [Keys -> Values \cup {Unset}]

Init == env \in Readable /\ req = <<>>

Request ==
  /\ req = <<>>
  /\ \E key \in Keys, val \in Values \cup {Unset} :
       req' = [key |-> key, val |-> val, base |-> env]
  /\ UNCHANGED env

Lose == req # <<>> /\ env' = Lost /\ UNCHANGED req

Serve ==
  /\ req # <<>> /\ req.base # Lost
  /\ env' = [req.base EXCEPT ![req.key] = req.val]
  /\ UNCHANGED req

\* A request that is cut short may leave the store unreadable.
Finish == req # <<>> /\ req' = <<>> /\ env' \in {env, Lost}

Next == Request \/ Lose \/ Serve \/ Finish

Spec == Init /\ [][Next]_storeVars
=============================================================================
