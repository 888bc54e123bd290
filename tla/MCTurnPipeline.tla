--------------------------- MODULE MCTurnPipeline ---------------------------
(* TurnPipeline on small instances: model values for microphones and for    *)
(* the absent turn, clip and reader.                                        *)
EXTENDS TurnPipeline, TLC

CONSTANTS r1, r2

MCReaders == {r1, r2}
OneReader == {r1}
ReaderSymmetry == Permutations(MCReaders)
=============================================================================
