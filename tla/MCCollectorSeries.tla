------------------------- MODULE MCCollectorSeries -------------------------
(* Instances of CollectorSeries for TLC: a pod that stays and two that come  *)
(* and go; the first waits behind the second and that behind the third, or   *)
(* the first behind each of the others.                                      *)
EXTENDS CollectorSeries

CONSTANTS pod, d1, d2

IdsThree == {pod, d1, d2}
PermanentOne == {pod}
KeysBehind == {<<pod, d1>>, <<pod, d2>>}
KeysChain == {<<pod, d1>>, <<d1, d2>>}
OwnLabel == [id \in IdsThree |-> id]
==============================================================================
