------------------------- MODULE OrderedImplements -------------------------
(***************************************************************************)
(* The refinement mapping: the rules SemiNaiverOrdered has deactivated are *)
(* the closed rules of StratifiedChase.                                    *)
(***************************************************************************)
EXTENDS SemiNaiverOrdered

Chase == INSTANCE StratifiedChase WITH closed <- Rules \ activeRules

\* Every step of the scheduler run without a timeout, including the nested
\* removals inside updateGraph, applies one rule none of whose outside
\* predecessors is still open, closes finished rules, or changes nothing a
\* caller of the chase can see.
ImplementsStratifiedChase == Chase!Spec

=============================================================================
