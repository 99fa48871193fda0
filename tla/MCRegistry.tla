----------------------------- MODULE MCRegistry -----------------------------
(***************************************************************************)
(* Instances of Registry: two multiplexes of one platform, a service of    *)
(* one of them, one network.                                               *)
(***************************************************************************)
EXTENDS Registry

MCMuxUri == {<<1, 1>>, <<1, 2>>}
MCServiceUri == {<<1, 2, 7>>}
=============================================================================
