--------------------------- MODULE MCBufferPool ------------------------------
(* BufferPool on two to four pages.  Frames are numbered from 1. *)
EXTENDS BufferPool, TLC

\* Pages 0 and 1 want the same frame.
Crowded == [p \in Pids |-> IF p = 2 THEN 2 ELSE 1]

\* Every page wants frame 1 (or hashes to the one bucket); every page has a bucket of its own.
Same == [p \in Pids |-> 1]
Apart == [p \in Pids |-> p + 1]

\* Three pages in two frames, two of them with the same home: faults, evictions and
\* promotions under fixX.
Promoting3 == [pages |-> 0..2, frames |-> {1, 2}, intended |-> Crowded, bucket |-> Apart,
               guards |-> {"X"}, promotes |-> TRUE, predicts |-> TRUE, perClass |-> FALSE]

\* Optimistic and shared readers of three pages in two frames, without prediction.
Reading == [Promoting3 EXCEPT !.guards = {"O", "S"}, !.predicts = FALSE]

\* Two pages that take turns in one frame, under every guard.
Turns == [pages |-> {0, 1}, frames |-> {1}, intended |-> Same, bucket |-> Apart,
          guards |-> {"O", "S", "X"}, promotes |-> FALSE, predicts |-> FALSE, perClass |-> FALSE]

\* Two pages of one bucket with the same home, and frames enough never to evict.
Displacing == [pages |-> {0, 1}, frames |-> {1, 2, 3}, intended |-> Same, bucket |-> Same,
               guards |-> {"S", "X"}, promotes |-> TRUE, predicts |-> TRUE, perClass |-> TRUE]

AllSetups == {Promoting3, Reading, Turns, Displacing}

\* Prediction with optimistic readers: the address of a guard outlives a move of its page.
Predicting == {[Promoting3 EXCEPT !.guards = {"O"}, !.promotes = FALSE]}

\* Four pages in three frames, 0 and 1 from home frame 1, 2 and 3 from frame 3, 1 and 3 in
\* one bucket: the page in the way is evicted and comes back elsewhere.
Pairs == {[pages |-> 0..3, frames |-> 1..3, intended |-> [p \in Pids |-> IF p < 2 THEN 1 ELSE 3],
           bucket |-> [p \in Pids |-> IF p = 3 THEN 1 ELSE p], guards |-> {"S"},
           promotes |-> TRUE, predicts |-> TRUE, perClass |-> FALSE]}

\* A promotion whose home frame is taken, the page in it hashed to another bucket.
OtherBucket == {[Displacing EXCEPT !.guards = {"X"}, !.bucket = Apart, !.perClass = FALSE]}

Symmetry == Permutations(Threads)
==============================================================================
