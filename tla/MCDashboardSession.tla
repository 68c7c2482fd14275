------------------------- MODULE MCDashboardSession -------------------------
(***************************************************************************)
(* Instances of DashboardSession for TLC: values of its constants.         *)
(***************************************************************************)
EXTENDS DashboardSession

KeysTyped == {<<"q">>, <<"ctrl+c">>, <<ESC>>, <<ESC, "[", "A">>, <<ESC, "O">>}

=============================================================================
