---------------------------- MODULE MCBootstrap ----------------------------
(* One instance type and one image.                                          *)
EXTENDS Bootstrap

OneType == <<"it:cpu-1">>
OneImage == <<"img:base-notebook">>
=============================================================================
