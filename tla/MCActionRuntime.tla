--------------------------- MODULE MCActionRuntime ---------------------------
(* Small instance of ActionRuntime: one proposal of any kind, confirmed    *)
(* again and again.                                                        *)
EXTENDS ActionRuntime

CONSTANT light
=============================================================================
