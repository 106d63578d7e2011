---------------------------- MODULE MCLiveWatcher ----------------------------
(* Small instances of the live watcher. *)
EXTENDS LiveWatcherProperties

SomeOrder ==
  LET order == SetToSeq(Files)
  IN [f \in Files |-> CHOOSE i \in DOMAIN order : order[i] = f]
=============================================================================
