---------------------------- MODULE MCDriveSystem ----------------------------
(* Values for the constants of DriveSystem.                                *)
EXTENDS DriveSystem

(* Three neighbouring sectors and a pattern no rotor position produces.    *)
SomeCodes == {0, 4, 5, 6}
=============================================================================
