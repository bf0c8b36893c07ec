---------------------------- MODULE MCVringWorkers ----------------------------
(* Small instances of VringWorkers for TLC. *)
EXTENDS VringWorkers, TLC

CONSTANTS f1, f2, fd1, fd2

\* One ring, which may be restarted with another eventfd, and one worker.  The mask
\* has a bit above the last ring, as the default 0xffff_ffff has.
OneMask      == 0 :> {0, 1}
OneRingFiles == 0 :> {f1, f2}

\* Two rings with one eventfd each.  The first worker has both rings in its mask; the second
\* one has ring 1 too, but the first mask counts.
SharedMasks  == (0 :> {0, 1}) @@ (1 :> {1})
OneFileEach  == (0 :> {f1}) @@ (1 :> {f2})
===============================================================================
