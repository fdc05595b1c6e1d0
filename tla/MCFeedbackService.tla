------------------------- MODULE MCFeedbackService -------------------------
(* FeedbackService for TLC. *)
EXTENDS FeedbackService
=============================================================================
