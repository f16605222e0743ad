--------------------------- MODULE MCFirmwareUpload ---------------------------
(***************************************************************************)
(* Images of one to three pieces where two are allowed.                    *)
(***************************************************************************)
EXTENDS FirmwareUpload

MCLength == [u \in Uploads |-> CASE u = "h1" -> 2 [] u = "h2" -> 1 [] u = "s1" -> 2
                                 [] u = "s2" -> 2 [] u = "s3" -> 3]

=============================================================================
