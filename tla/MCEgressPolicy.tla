-------------------------- MODULE MCEgressPolicy --------------------------
(* Small instances of EgressPolicy for TLC.                              *)
EXTENDS EgressPolicy

OneList == {<<"GET", "HEAD">>}
Pip == <<"pypi.org">>
=============================================================================
