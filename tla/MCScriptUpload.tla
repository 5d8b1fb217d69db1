--------------------------- MODULE MCScriptUpload ---------------------------
(* ScriptUpload for TLC. *)
EXTENDS ScriptUpload, TLC

CONSTANTS f1, f2, t1, t2, handler, own

TwoFiles  == {f1, f2}
TwoTexts  == {t1, t2}
OneOther  == {own}

FileAndTextSymmetry == Permutations(TwoFiles) \cup Permutations(TwoTexts)
=============================================================================
