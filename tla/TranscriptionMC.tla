-------------------------- MODULE TranscriptionMC --------------------------
(* Bounded instances of Transcription. *)
EXTENDS Transcription
=============================================================================
