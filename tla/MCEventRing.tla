---------------------------- MODULE MCEventRing ----------------------------
(* A small instance of EventRing: the UI thread and another one publish.    *)
EXTENDS EventRing, TLC

CONSTANTS ui, t1, r1, w1, m1, m2

MCThreads == {ui, t1}
MCReaders == {r1}
MCWaiters == {w1}
MCMaps == {m1, m2}
=============================================================================
