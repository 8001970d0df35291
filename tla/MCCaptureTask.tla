--------------------------- MODULE MCCaptureTask ---------------------------
\* The capture task on a small clock.
EXTENDS CaptureTask
=============================================================================
