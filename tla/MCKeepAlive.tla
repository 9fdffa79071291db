---------------------------- MODULE MCKeepAlive ----------------------------
(* Small instances of KeepAlive for TLC. *)
EXTENDS KeepAlive, TLC

\* The instances are within the hypotheses of the theorems of KeepAliveProofs.
ASSUME SettingAssumption == TwoProxies /\ Margin
=============================================================================
