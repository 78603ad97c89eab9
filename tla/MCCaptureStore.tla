---------------------------- MODULE MCCaptureStore ----------------------------
EXTENDS CaptureStore

mcVersions == <<2, 0>>
=============================================================================
