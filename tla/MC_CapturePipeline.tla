-------------------------- MODULE MC_CapturePipeline ---------------------------
\* One capture that can fill every queue, and a short one after it.
EXTENDS CapturePipeline

FramesOfCaptures == <<4, 1>>
================================================================================
