------------------------------ MODULE MCClient ------------------------------
(***************************************************************************)
(* Instance of Client for TLC.                                             *)
(***************************************************************************)
EXTENDS Client

MCSku == {<<>>, <<"a">>}
=============================================================================
