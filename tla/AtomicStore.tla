---- MODULE AtomicStore ----
(***************************************************************************)
(* What the two-slot application store promises: one application is        *)
(* installed, a new one replaces it in one step, and the loss of power, at *)
(* whatever moment, is not a step at all.                                  *)
(***************************************************************************)
EXTENDS Naturals

CONSTANTS Apps, None

VARIABLES installed, version

Init == installed = None /\ version = 0

Install(app) == installed' = app /\ version' = version + 1

Next == \E app \in Apps : Install(app)

Spec == Init /\ [][Next]_<<installed, version>>
====
