---------------------------- MODULE LinuxTimerMC ----------------------------
(* Instances of LinuxTimer for TLC; the values are in the configurations.   *)
EXTENDS LinuxTimer

=============================================================================
