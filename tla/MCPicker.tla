------------------------------- MODULE MCPicker -------------------------------
(***************************************************************************)
(* The picker with one configured host and one retained group, first of    *)
(* another name and then of the same name, whose target the configuration  *)
(* has changed since.                                                      *)
(***************************************************************************)
EXTENDS Picker

TwoNames == <<"local", "box">>
OneName == <<"box", "box">>

\* Workloads 1 and 2 are of the configured host, 3 and 4 of the retained group.
Homes == <<1, 1, 2, 2>>
=============================================================================
