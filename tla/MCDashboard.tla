----------------------------- MODULE MCDashboard -----------------------------
(***************************************************************************)
(* Instances of Dashboard for TLC: values of its constants.                *)
(***************************************************************************)
EXTENDS Dashboard

\* q is held, so that it comes twice.
KeysTyped ==
  {<<"q", "q">>, <<"ctrl+c">>, <<ESC, "[", "B">>, <<ESC, "O">>, <<"k">>, <<"enter">>, <<"3">>}

=============================================================================
