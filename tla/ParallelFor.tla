---------------------------- MODULE ParallelFor -----------------------------
(***************************************************************************)
(* What a filter that splits its work into jobs relies on                  *)
(* (AVFilterGraph.execute, src/ffmpeg/libavfilter/avfilter.h): every job   *)
(* of a call runs exactly once, no job of another call runs meanwhile, and *)
(* the call is over only when all of its jobs are.                         *)
(***************************************************************************)
EXTENDS Naturals

VARIABLES calling,     \* a call is in progress
          todo, running, finished     \* the call's jobs, by what became of them

vars == <<calling, todo, running, finished>>

Init == ~calling /\ todo = {} /\ running = {} /\ finished = {}

Call ==
    /\ ~calling /\ running = {}
    /\ calling' = TRUE
    /\ \E last \in todo' : todo' = 0 .. last
    /\ running' = {} /\ finished' = {}

Begin ==
    /\ calling
    /\ \E job \in todo :
          /\ todo' = todo \ {job}
          /\ running' = running \cup {job}
    /\ UNCHANGED <<calling, finished>>

End ==
    /\ calling
    /\ \E job \in running :
          /\ running' = running \ {job}
          /\ finished' = finished \cup {job}
    /\ UNCHANGED <<calling, todo>>

Return ==
    /\ calling /\ todo = {} /\ running = {}
    /\ calling' = FALSE
    /\ UNCHANGED <<todo, running, finished>>

Next == Call \/ Begin \/ End \/ Return

Spec == Init /\ [][Next]_vars
=============================================================================
