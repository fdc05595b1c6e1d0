---------------------------- MODULE MCFeedbackRun ----------------------------
EXTENDS FeedbackRun
MCFingerprint == [f \in Feedback |-> 1]
MCRoutes == {"reproducing", "publishing_issue", "needs_human"}
MCOutcomes == RepairOutcomes
=============================================================================
