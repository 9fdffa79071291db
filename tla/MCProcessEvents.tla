-------------------------- MODULE MCProcessEvents --------------------------
(* Small instances of ProcessEvents for TLC. *)
EXTENDS ProcessEvents, TLC

CONSTANTS timeout, watcher, sigint

const_Reloaders == <<watcher>>
const_Closers == <<sigint, timeout>>
=============================================================================
