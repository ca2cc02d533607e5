------------------------------ MODULE MCCloudSave ------------------------------
(* One title anybody may push, in a size within the quota and one over it,  *)
(* and one only boosters may.  Of two requests one may find the status      *)
(* again that the other one lost.                                           *)
EXTENDS CloudSave

CONSTANTS w1, w2, kart, other

MCUploads == {<<w1, kart, 2>>, <<w1, other, 6>>, <<w2, kart, 6>>}
MCDeletions == {<<w1, kart>>, <<w1, other>>}
MCPushes == {<<w1, TRUE, TRUE>>, <<w2, TRUE, FALSE>>, <<w2, FALSE, FALSE>>}
=============================================================================
