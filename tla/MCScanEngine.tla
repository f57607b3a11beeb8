---------------------------- MODULE MCScanEngine ----------------------------
(* Instances of ScanEngine for TLC: scans a and b, of up to two files, of  *)
(* which the first is infected; more than one file goes to the workers.    *)
EXTENDS ScanEngine

CONSTANTS a, b
FirstInfected == {<<a, 1>>, <<b, 1>>}
=============================================================================
