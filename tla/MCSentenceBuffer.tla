-------------------------- MODULE MCSentenceBuffer --------------------------
(* SentenceBuffer on every reply of a few characters, cut into chunks in    *)
(* every way.                                                               *)
EXTENDS SentenceBuffer
=============================================================================
