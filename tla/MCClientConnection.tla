--------------------------- MODULE MCClientConnection --------------------------
(***************************************************************************)
(* Small instances of ClientConnection for TLC.                            *)
(***************************************************************************)
EXTENDS ClientConnection, TLC

CONSTANTS a, b, a1, a2, b1, aObserver, bObserver, aReaper, bReaper, r1, r2

\* The processes the threads belong to.
Homes == (a1 :> a) @@ (a2 :> a) @@ (b1 :> b) @@ (aObserver :> a) @@ (bObserver :> b)
           @@ (aReaper :> a) @@ (bReaper :> b)
HomeOfThreads == [t \in AppThreads \cup Observers \cup Reapers |-> Homes[t]]
================================================================================
