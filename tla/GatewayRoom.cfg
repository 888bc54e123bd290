\* Three subscriptions of two tracks: one track comes back.
SPECIFICATION Spec
CONSTANTS
  NumSubs = 3
  mic1 = mic1
  mic2 = mic2
  Ids <- MCIds
  TrackOf <- MCTrackOf
  NoSub = NoSub
INVARIANTS
  TypeOK
  Inv
  EntriesLive
  OneCloser
  StillHeard
  OnlyKnownLeaks
  EndedTracksAreClosed
