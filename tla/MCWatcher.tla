--------------------------- MODULE MCWatcher ---------------------------
(* A small instance of Watcher for TLC.                                    *)
EXTENDS Watcher
=============================================================================
