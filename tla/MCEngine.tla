------------------------------ MODULE MCEngine ------------------------------
(***************************************************************************)
(* Instances of Engine for TLC: values of its constants.                   *)
(***************************************************************************)
EXTENDS Engine

OneRid  == {1}
TwoRids == {1, 2}

Daemon    == {[once |-> FALSE, dry |-> FALSE]}
AllModes  == [once : BOOLEAN, dry : BOOLEAN]
DaemonModes == [once : {FALSE}, dry : BOOLEAN]
LiveModes == [once : BOOLEAN, dry : {FALSE}]

Duplicates  == {"duplicate"}
AllVerdicts == {"duplicate", "uncertain", "invalid"}

=============================================================================
