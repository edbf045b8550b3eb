---------------------------- MODULE EventDelivery ----------------------------
(***************************************************************************)
(* What the announcement of an employee amounts to: the welcome is due,    *)
(* and then either happens, once, or is lost with whatever was to see to   *)
(* it.  EmployeeEvents implements this over the memory of the publisher,   *)
(* the broker's queue and the running handlers.                            *)
(***************************************************************************)
EXTENDS Naturals

CONSTANTS Events

VARIABLES due,      \* events whose welcome is still to come
          welcomes, \* how often each was welcomed
          lost      \* events nobody will see to any more

vars == <<due, welcomes, lost>>

Init ==
  /\ due = {}
  /\ welcomes = [e \in Events |-> 0]
  /\ lost = {}

Announce(e) ==
  /\ e \notin due \cup lost /\ welcomes[e] = 0
  /\ due' = due \cup {e}
  /\ UNCHANGED <<welcomes, lost>>

Welcome(e) ==
  /\ e \in due
  /\ due' = due \ {e}
  /\ welcomes' = [welcomes EXCEPT ![e] = 1]
  /\ UNCHANGED lost

\* Events are lost together when what holds them goes.
Lose(es) ==
  /\ es \subseteq due
  /\ due' = due \ es
  /\ lost' = lost \cup es
  /\ UNCHANGED welcomes

Next ==
  \/ \E e \in Events : Announce(e) \/ Welcome(e)
  \/ \E es \in SUBSET due : Lose(es)

Spec == Init /\ [][Next]_vars
=============================================================================
