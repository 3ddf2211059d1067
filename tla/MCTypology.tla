---------------------------- MODULE MCTypology ------------------------------
(* Three types, one or two of them below another, or one of them to be made. *)
EXTENDS Typology, TLC
CONSTANTS place, town, port

MCFirstPlaces ==
  {place :> Root @@ town :> place @@ port :> Root,
   place :> Root @@ town :> place @@ port :> town,
   place :> Root @@ town :> place}
MCProcesses == Permutations(Processes)
=============================================================================
