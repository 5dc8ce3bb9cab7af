--------------------------- MODULE MCPickerAndSearch ---------------------------
(***************************************************************************)
(* The picker, and the search for repositories that it starts: a behaviour *)
(* is one of either, and the other stays as it begins.  The picker takes   *)
(* what a search found as directories, which it does not tell apart.       *)
(***************************************************************************)
EXTENDS MCPicker, Discovery, TLC

\* Workers of a search are alike.
WorkersAreAlike == Permutations(Workers)

VARIABLE part

PickerAndSearchInit ==
  /\ part \in {"picker", "search"} /\ PickerInit /\ SearchInit
  /\ part = "search" => ~ui.error /\ status[2] = "Ended" /\ status[1] = "Ended"

PickerAndSearchNext ==
  /\ UNCHANGED part
  /\ \/ part = "picker" /\ PickerNext /\ UNCHANGED searchVars
     \/ part = "search" /\ SearchNext /\ UNCHANGED pickerVars

PickerAndSearchSpec ==
  PickerAndSearchInit /\ [][PickerAndSearchNext]_<<part, pickerVars, searchVars>>
=============================================================================
