--------------------------- MODULE MCScenarioStore ---------------------------
(* The lookup the vertical loader makes for a document with a vertical, and  *)
(* the listing of the operators.                                             *)
EXTENDS ScenarioStore, TLC

MCLookups == {resolve(None, 1), list_all(FALSE)}

EditorSymmetry == Permutations(Editors)
=============================================================================
