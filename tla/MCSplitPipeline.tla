-------------------------- MODULE MCSplitPipeline ---------------------------
EXTENDS SplitPipeline

=============================================================================
