------------------------- MODULE MCConnectionManager -------------------------
(***************************************************************************)
(* Instances of ConnectionManager for TLC.                                 *)
(***************************************************************************)
EXTENDS ConnectionManager

(* Connections and threads are interchangeable: the safety runs, none of which
   checks a temporal property, use this symmetry. *)
Symmetry == Permutations(Connections) \cup Permutations(Threads)

=============================================================================
