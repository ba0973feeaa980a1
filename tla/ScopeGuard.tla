------------------------------ MODULE ScopeGuard ------------------------------
(***************************************************************************)
(* What ScopeRunner promises to the handlers of an io_service and to the     *)
(* object that owns them (web/utility.h:311-354): handlers run together      *)
(* until the scope is closed; it is closed only while none runs; afterwards  *)
(* none runs any more, so the owner may be destroyed.                       *)
(***************************************************************************)
CONSTANT Handlers

VARIABLES active, open

Init == active = {} /\ open = TRUE

Enter(h) == open /\ h \notin active /\ active' = active \cup {h} /\ UNCHANGED open

Leave(h) == h \in active /\ active' = active \ {h} /\ UNCHANGED open

Close == open /\ active = {} /\ open' = FALSE /\ UNCHANGED active

Next == Close \/ \E h \in Handlers : Enter(h) \/ Leave(h)

Spec == Init /\ [][Next]_<<active, open>>
=============================================================================
