-------------------------- MODULE MCDeepgramStream --------------------------
(* DeepgramStream with a channel shorter than the transcripts sent, so that  *)
(* emit also meets a full channel.                                           *)
EXTENDS DeepgramStream
=============================================================================
