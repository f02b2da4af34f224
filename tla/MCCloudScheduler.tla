--------------------------- MODULE MCCloudScheduler ---------------------------
(* Instances of CloudScheduler for TLC.                                    *)
EXTENDS CloudScheduler
CONSTANTS s1, s2, s3, s4

Three == {<<s1, s2, s3>>, <<s4>>}
=============================================================================
