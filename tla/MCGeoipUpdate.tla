---------------------------- MODULE MCGeoipUpdate ----------------------------
(* GeoipUpdate for TLC: two editions that share a file.  A pod that has     *)
(* begun to load does nothing but load.                                     *)
EXTENDS GeoipUpdate, TLC

CONSTANTS asn, city, f1, f2

MCFilesOf == (asn :> {f1}) @@ (city :> {f1, f2})
MCUris == <<f1, f2>>

\* The first file is the one that is shared; what came between it and the
\* second is not looked at.
AtOnce == \A p \in Pods : loaded[p] = 1 => loaded'[p] # 1

MCSpec == Init /\ [][Next /\ AtOnce]_vars /\ Fairness
==============================================================================
