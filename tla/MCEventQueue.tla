---------------------------- MODULE MCEventQueue ----------------------------
(* Instances of EventQueue for TLC; the constants are given in the .cfg     *)
(* files.  Producers, workers and clients are interchangeable in the runs   *)
(* that check invariants only.                                              *)
EXTENDS EventQueue, TLC

Interchangeable ==
  Permutations(Producers \ Cancelable) \cup Permutations(Workers)
     \cup Permutations(Clients)
=============================================================================
