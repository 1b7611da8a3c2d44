------------------------- MODULE MCProviderExecutor -------------------------
(* Two threads with two attempts each; a window admits two requests and    *)
(* ends before a long sleep does.                                          *)
EXTENDS ProviderExecutor

CONSTANTS t1, t2
=============================================================================
