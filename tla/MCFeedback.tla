------------------------------ MODULE MCFeedback ------------------------------
EXTENDS Feedback, TLC

=============================================================================
