--------------------------- MODULE PriorityBands ---------------------------
(* The numbers of jobs/priority.py: the lease query serves the highest first. *)
EXTENDS Integers

INTERACTIVE == 100
NORMAL      == 0
BENCHMARK   == -100
FETCH       == BENCHMARK - 50
BACKFILL    == -200

FIRST_CHUNK_BONUS == 50

(* Earlier chunks first; the first chunk of watched work gets the bonus. *)
chunk_priority(band, index) ==
  band + (IF index = 0 /\ band >= NORMAL THEN FIRST_CHUNK_BONUS ELSE 0) - index

(* complete_upload() and retry_video() put the probe in front of its band *)
probe_priority(band) == band + 10
=============================================================================
