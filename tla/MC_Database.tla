---------------------------- MODULE MC_Database ----------------------------
(* Instances of Database for TLC.  The cfg files give Months and Seasons   *)
(* as sets of model values.                                               *)
EXTENDS Database, TLC

\* Months and seasons are interchangeable names in every property.
MCSymmetry == Permutations(Months) \cup Permutations(Seasons)

\* res and issued are written by the actions and read by no guard: states that
\* differ only in them have the same futures, and the state invariants checked
\* under this view do not mention them.
StoreView == <<envExists, envOpen, disk, stack, session>>
=============================================================================
