---------------------------- MODULE FirmwareUpdate ----------------------------
(***************************************************************************)
(* What the firmware update promises the device, whatever happens on the   *)
(* network and whenever the power fails: the program to boot changes in    *)
(* one step, from one the boot loader accepts to another, and the program  *)
(* that runs stays in its slot untouched until the device starts again.    *)
(* OtaTftp implements this with two slots that are written block by block. *)
(***************************************************************************)
CONSTANTS
    Images,     \* the images that the boot loader accepts
    Factory     \* what the device is delivered with

VARIABLES
    installed,  \* what the device starts with when it starts again
    program     \* what it runs

updateVars == <<installed, program>>

Init == installed = Factory /\ program = Factory

\* A new image is installed; the device starts it before it takes the next one.
Install == /\ program = installed
           /\ installed' \in Images
           /\ UNCHANGED program

\* The device starts again.
Boot == /\ program' = installed
        /\ UNCHANGED installed

Next == Install \/ Boot

Spec == Init /\ [][Next]_updateVars
=============================================================================
