--------------------------- MODULE MCVoiceReports ---------------------------
(* Two requests and two microphone prompts.                                  *)
EXTENDS VoiceReports

CONSTANTS r1, r2, m1, m2
=============================================================================
