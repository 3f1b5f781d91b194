------------------------------ MODULE MCSession ------------------------------
(***************************************************************************)
(* Model checking of Session: a ring of two slots whose second lap is      *)
(* begun, nodes of which two full ones make a send and three small ones    *)
(* are more than it takes, a pool that has to grow, and a session that is  *)
(* deleted, or inserted over, once.                                        *)
(***************************************************************************)
EXTENDS Session
==============================================================================
