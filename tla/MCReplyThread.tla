---------------------------- MODULE MCReplyThread ---------------------------
(***************************************************************************)
(* An instance of ReplyThread for TLC: a root whose author is not the      *)
(* author of the post, its answer, and one user beside the projection.     *)
(***************************************************************************)
EXTENDS ReplyThread

MCReplies == {1, 2}

=============================================================================
