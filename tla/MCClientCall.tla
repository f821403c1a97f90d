---------------------------- MODULE MCClientCall ----------------------------
(* ClientCall with two or three calling threads; everything it needs is in  *)
(* the configurations.                                                      *)
EXTENDS ClientCall
============================================================================
