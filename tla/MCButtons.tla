------------------------------ MODULE MCButtons ------------------------------
(* The module as it stands; HOLD is 2 delays instead of 10.                    *)
EXTENDS Buttons
==============================================================================
