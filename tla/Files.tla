------------------------------- MODULE Files --------------------------------
(* Files that are written in place by runs that may be cut short.              *)
EXTENDS Naturals

CONSTANTS
    Absent, Torn,   \* a file that is not there, and one cut short in writing
    MaxCuts         \* bound on the runs that are cut short

ASSUME FilesAssumption == Absent # Torn /\ MaxCuts \in Nat

VARIABLE cuts       \* runs cut short so far

\* A run is cut short.
Cut == cuts < MaxCuts /\ cuts' = cuts + 1
=============================================================================
