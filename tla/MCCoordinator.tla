---------------------------- MODULE MCCoordinator ----------------------------
(***************************************************************************)
(* The options the coordinator runs explore.                               *)
(***************************************************************************)
EXTENDS Coordinator

Configured(threads, fences, save, posix) ==
    [max_session_threads |-> threads, max_backend_incarnations |-> fences,
     save_on_shutdown |-> save, posix |-> posix]

\* Windows with a thread for every connection and room for every fence; Windows with one
\* thread, saving on shutdown; POSIX with a thread and a fence too few.
RunOptions == {Configured(3, 2, FALSE, FALSE), Configured(1, 1, TRUE, FALSE),
               Configured(2, 1, FALSE, TRUE)}
ClaimOptions == {Configured(3, 2, FALSE, FALSE)}

=============================================================================
