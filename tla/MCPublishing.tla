---------------------------- MODULE MCPublishing ----------------------------
EXTENDS Publishing
CONSTANTS f1, g, h
MCPrefix == [f \in PullFeedback |-> "p"]
MCBatches == {{f1}, {g}, {h}}
=============================================================================
