---------------------------- MODULE MCThreadPool ----------------------------
(* Instances of ThreadPool for TLC.                                        *)
EXTENDS ThreadPool

\* stop() from the destructor, or from a signal that finds Main outside
\* enqueue(); and stop() from a signal at any point of Main.
OutsideEnqueue == {"idle"}
AnyPoint       == MainPoints
=============================================================================
