----------------------------- MODULE PowerCycle -----------------------------
(***************************************************************************)
(* What a handler promises about the power of its ports, whatever hardware *)
(* switches it.  A port is on; or it is being cycled, off for a moment and *)
(* bound to come back; or a client has disabled it, and then only a client *)
(* brings it back.  One callback may move several ports.                   *)
(***************************************************************************)
CONSTANT Ports

VARIABLE power

States == {"on", "cycling", "disabled"}

Moves == {<<"on", "cycling">>, <<"cycling", "on">>,
          <<"on", "disabled">>, <<"cycling", "disabled">>, <<"disabled", "on">>}

Init == power = [p \in Ports |-> "on"]

Next == \E f \in [Ports -> States] :
            /\ \A p \in Ports : f[p] = power[p] \/ <<power[p], f[p]>> \in Moves
            /\ power' = f

Restore(p) == Next /\ power[p] = "cycling" /\ power'[p] = "on"

Spec == Init /\ [][Next]_power /\ \A p \in Ports : WF_power(Restore(p))
=============================================================================
