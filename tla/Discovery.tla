----------------------------- MODULE Discovery -----------------------------
(***************************************************************************)
(* What the programs promise together: services are announced, and what is *)
(* found was announced.  Neither is ever taken back: a responder sends no  *)
(* goodbye and a browser forgets nothing.                                  *)
(***************************************************************************)
CONSTANT Services
VARIABLES announced, found

Init == announced = {} /\ found = {}

Announce ==
  /\ announced \subseteq announced' /\ announced' \subseteq Services
  /\ UNCHANGED found

Find ==
  /\ found \subseteq found' /\ found' \subseteq announced
  /\ UNCHANGED announced

Spec == Init /\ [][Announce \/ Find]_<<announced, found>>
=============================================================================
