----------------------------- MODULE MCFencedJobs -----------------------------
(***************************************************************************)
(* Instances of FencedJobs for TLC.  Two processes with one worker thread  *)
(* each are the least that let a stale worker meet its successor.          *)
(***************************************************************************)
EXTENDS FencedJobs, TLC

CONSTANTS j1, p1, p2, w1, w2, c1, c2

\* One thread in each of two processes; two threads, or task slots, of one
\* process; a single thread.
TwoProcs == (w1 :> p1) @@ (w2 :> p2)
Shared == (w1 :> p1) @@ (w2 :> p1)
OneWorker == (w1 :> p1)

EitherWorker == Permutations({w1, w2})

\* Exchanging the two processes together with their workers.
EitherProcess == {(p1 :> p1) @@ (p2 :> p2) @@ (w1 :> w1) @@ (w2 :> w2),
                  (p1 :> p2) @@ (p2 :> p1) @@ (w1 :> w2) @@ (w2 :> w1)}
===============================================================================
