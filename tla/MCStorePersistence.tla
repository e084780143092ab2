------------------------ MODULE MCStorePersistence ------------------------
(* StorePersistence for TLC.                                               *)
EXTENDS StorePersistence
===========================================================================
