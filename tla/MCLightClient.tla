----------------------------- MODULE MCLightClient ------------------------------
(***************************************************************************)
(* A small instance of LightClient for TLC: the driver has a light that    *)
(* the mock does not have.                                                 *)
(***************************************************************************)
EXTENDS LightClient
================================================================================
