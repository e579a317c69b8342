--------------------------- MODULE MCConvertTool ----------------------------
(***************************************************************************)
(* An instance of ConvertTool.                                             *)
(***************************************************************************)
EXTENDS ConvertTool

CONSTANT hello
=============================================================================
