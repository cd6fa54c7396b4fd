---------------------------- MODULE MCWavePlayer ----------------------------
(* Four files for WavePlayer: one with a header that counts less than the     *)
(* file holds, one whose header counts its own length too, as a plain wave     *)
(* file's does, one without data, and one that the player does not support.      *)
EXTENDS WavePlayer

McFiles == << [data |-> 4, size |-> 4, ok |-> TRUE],
              [data |-> 3, size |-> 4, ok |-> TRUE],
              [data |-> 0, size |-> 1, ok |-> TRUE],
              [data |-> 2, size |-> 2, ok |-> FALSE] >>
=============================================================================
