--------------------------- MODULE MCEnqueueBatch ---------------------------
(* Small instances of EnqueueBatch for TLC. *)
EXTENDS EnqueueBatch

Req(kind, partition, key) == [kind |-> kind, partition |-> partition, key |-> key]

\* One batch against the order of the partitions, one with a repeated request,
\* a deletion (a release, then the cleanup of the Session) and a single partition.
Work == {<< <<Req(1, 2, 2), Req(1, 1, 1)>> >>,
         << <<Req(2, 2, 3), Req(1, 1, 1), Req(1, 1, 1)>> >>,
         << <<Req(2, 1, 4)>>, <<Req(1, 2, 2)>> >>,
         << <<Req(2, 1, 4), Req(1, 1, 1)>> >>}
=============================================================================
