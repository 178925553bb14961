------------------------- MODULE MCCgroupCollector -------------------------
(* An instance of CgroupCollector for TLC: a pod and a system slice that     *)
(* stay, each behind a pod that comes and goes.                              *)
EXTENDS CgroupCollector

CONSTANTS pod, system, d1

IdsSys == {pod, system, d1}
PodsSys == {pod, d1}
PermanentSys == {pod, system}
KeysSys == {<<pod, d1>>, <<system, d1>>}
==============================================================================
