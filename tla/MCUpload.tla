------------------------------- MODULE MCUpload -------------------------------
(* The instance of Upload that TLC checks: an empty file, two of the same    *)
(* length, and a longer one.                                                 *)
EXTENDS Upload

CONSTANTS b1, b2

MCVersion == {<<>>, <<b1, b1>>, <<b2, b2>>, <<b1, b2, b1>>}
=============================================================================
