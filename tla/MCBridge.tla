------------------------------ MODULE MCBridge ------------------------------
(* The bridge with two VS Code windows.                                    *)
EXTENDS BridgeSessions, TLC
CONSTANTS v1, v2
MCWindows == Permutations(Windows)
=============================================================================
