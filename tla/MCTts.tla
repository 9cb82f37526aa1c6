------------------------------- MODULE MCTts --------------------------------
(* An instance of tts_node for TLC: two utterances with text, responses    *)
(* without samples and of two chunks.                                      *)
EXTENDS TtsHistory

Pair == 1..2
NoBlank == {}
MCChunkCounts == {0, 2}
=============================================================================
