\* Two requests, two microphone prompts, two polls, one file, one way
\* to another page and back.
SPECIFICATION FairSpec
CONSTANTS
  r1 = r1
  r2 = r2
  m1 = m1
  m2 = m2
  Requests = {r1, r2}
  Mics = {m1, m2}
  MaxPolls = 2
  MaxFiles = 1
  MaxLeaves = 1
INVARIANTS
  TypeOK
  AudioSentOnce
  MicReleased
  ReadyIsTrue
PROPERTIES
  VoiceOrdersKept
  VoiceEnds
\* The user may stop.
CHECK_DEADLOCK FALSE
