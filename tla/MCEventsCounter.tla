--------------------------- MODULE MCEventsCounter ---------------------------
(* An instance of EventsCounter for TLC: one pod that stays and two cgroups  *)
(* that come and go, as what the pod waits behind.                           *)
EXTENDS EventsCounter

CONSTANTS pod, d1, d2

IdsThree == {pod, d1, d2}
PodsOne == {pod}
PermanentOne == {pod}
KeysBehind == {<<pod, d1>>, <<pod, d2>>}
==============================================================================
