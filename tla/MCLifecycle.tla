----------------------------- MODULE MCLifecycle -----------------------------
(* Instances of Lifecycle: both programs, three platforms, a child that may *)
(* start another process.                                                   *)
EXTENDS Lifecycle

CONSTANTS leader, m1, s1, s2

(* The process group and the streams meet only in the phases of the main    *)
(* goroutine, so that streams are opened in dashboard mode alone here.      *)
Alone == mode = "child" => UNCHANGED stream

(* The Unix builds alone. *)
SpecUnix == Init /\ Unix /\ [][Next]_vars

SpecApart == Init /\ [][Next /\ Alone]_vars /\ Fairness
=============================================================================
