---------------------------- MODULE WsLifecycle ----------------------------
(***************************************************************************)
(* What a WebSocket connection promises to the callbacks of its            *)
(* application: on_open once, then messages, then an end, and nothing      *)
(* after it.  An end is on_close or on_error; a message that is too big is *)
(* the one end that is announced by both, on_error first.                  *)
(***************************************************************************)
EXTENDS Naturals, Sequences

VARIABLES opened, received, ended

vars == <<opened, received, ended>>

Init == opened = FALSE /\ received = 0 /\ ended = <<>>

Open == ~opened /\ ended = <<>> /\ opened' = TRUE /\ UNCHANGED <<received, ended>>

Message == opened /\ ended = <<>> /\ received' = received + 1 /\ UNCHANGED <<opened, ended>>

Close == opened /\ ended \in {<<>>, <<"error">>}
         /\ ended' = Append(ended, "close") /\ UNCHANGED <<opened, received>>

Error == ended = <<>> /\ ended' = <<"error">> /\ UNCHANGED <<opened, received>>

\* Both announced before the application can look.
TooBig == opened /\ ended = <<>> /\ ended' = <<"error", "close">>
          /\ UNCHANGED <<opened, received>>

Next == Open \/ Message \/ Close \/ Error \/ TooBig

Spec == Init /\ [][Next]_vars
=============================================================================
