--------------------------------- MODULE MCOta ---------------------------------
(***************************************************************************)
(* Campaigns over small trees, two pages and up to two images.             *)
(***************************************************************************)
EXTENDS Ota

\* A root with two branches, one of them two panels deep, in discovery order.
Fork  == <<0, 1, 2, 1>>

=============================================================================
