------------------------------ MODULE Dialogue ------------------------------
(***************************************************************************)
(* What an exchange promises the two tasks that talk over it: every        *)
(* message said is heard at most once, and nobody says the next message    *)
(* before the last one was heard.  Either side may fall silent.            *)
(***************************************************************************)
EXTENDS Naturals

CONSTANT M            \* the number of messages

VARIABLES said,       \* the last message said
          heard       \* the last message heard

Init == said = 0 /\ heard = 0

Say == said = heard /\ said < M /\ said' = said + 1 /\ UNCHANGED heard

Hear == heard < said /\ heard' = said /\ UNCHANGED said

Next == Say \/ Hear

Spec == Init /\ [][Next]_<<said, heard>>
=============================================================================
