--------------------------- MODULE MCFeedbackGate ---------------------------
(* FeedbackGate for TLC. *)
EXTENDS FeedbackGate

\* Each signal out of line once, and the one that only the flag speaks of.
MCModelSignals ==
    {[NoSignals EXCEPT !.related = "low"], [NoSignals EXCEPT !.mixed = "unsure"],
     [NoSignals EXCEPT !.injection = "high"]}
=============================================================================
