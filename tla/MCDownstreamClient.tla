-------------------------- MODULE MCDownstreamClient --------------------------
(* A child process with two frames, or an HTTP server with pages of two    *)
(* tools and three cursors: enough to come back to one, or to pass the     *)
(* limit on pages without.                                                 *)
EXTENDS DownstreamClient

CONSTANTS t1, t2, c1, c2, c3, s1
=============================================================================
