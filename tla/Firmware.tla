------------------------------ MODULE Firmware ------------------------------
(***************************************************************************)
(* What the firmware update promises.  The board always has one complete   *)
(* version to boot; it changes at once, only to a version of which the     *)
(* whole file was offered, and never back to an older one.                 *)
(***************************************************************************)
EXTENDS Integers

VARIABLES
  installed,   \* the version the board boots
  offered      \* versions of which a whole file was uploaded

Init == installed = 0 /\ offered = {0}

Offer == /\ offered \subseteq offered'
         /\ UNCHANGED installed

Install == /\ installed' \in offered
           /\ installed' > installed
           /\ UNCHANGED offered

Next == Offer \/ Install

Spec == Init /\ [][Next]_<<installed, offered>>
=============================================================================
