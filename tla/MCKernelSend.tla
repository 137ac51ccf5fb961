---------------------------- MODULE MCKernelSend ----------------------------
(* TLC instance of KernelSend: a few messages, queues that fill up. *)
EXTENDS KernelSend

CONSTANTS a, b, c

\* Two messages compete for the v2 queue, one takes the v3 queue.
MCMsgs2 == {a, b}
MCMsgs3 == {c}
=============================================================================
