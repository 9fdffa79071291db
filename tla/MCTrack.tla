------------------------------ MODULE MCTrack ------------------------------
(* Small instances of Track for TLC. *)
EXTENDS TrackForwarder, TrackTraffic, TLC

Symmetry == Permutations(Workers)
=============================================================================
