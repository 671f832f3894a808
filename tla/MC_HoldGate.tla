---------------------------- MODULE MC_HoldGate ----------------------------
(***************************************************************************)
(* Alone, one session makes three asks, two hooks and a detached           *)
(* request_phase, so that each can supersede another.  Shared, a second    *)
(* session's blocking verb holds in the same process as a hook with a      *)
(* budget and a request_phase of the first, which supersede each other.    *)
(***************************************************************************)
EXTENDS HoldGate, TLC

CONSTANTS s1, s2, hook1, hook2, phase1, verb2

OneSession   == {s1}
TwoSessions  == {s1, s2}
AloneAsks    == {hook1, hook2, phase1}
AloneBy      == (hook1 :> s1) @@ (hook2 :> s1) @@ (phase1 :> s1)
SharedAsks   == {hook1, phase1, verb2}
SharedBy     == (hook1 :> s1) @@ (phase1 :> s1) @@ (verb2 :> s2)
TwoHooks     == {hook1, hook2}
OneHook      == {hook1}
PhaseVerb    == {phase1}
NoAsk        == {}
=============================================================================
