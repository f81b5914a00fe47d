---------------------------- MODULE MCSlotLimiter ----------------------------
EXTENDS SlotLimiter

\* A settings file whose in-flight count makes no sense: to be ignored.
NegativeCount == -1
=============================================================================
