----------------------------- MODULE MCOutbox -----------------------------
(* Instances of Outbox small enough for TLC. *)
EXTENDS Outbox, TLC

CONSTANTS k1

Job(key, topic, max, delay, storable) ==
    [key |-> key, topic |-> topic, max |-> max, delay |-> delay,
     storable |-> storable]

(* Two requests may share a key; one topic has no handler; one job starts  *)
(* late, and its handler returns a result the JSON column cannot hold.     *)
MixedJobs ==
    { Job(k1, "noop", 2, 0, TRUE), Job(NoKey, "noop", 1, 1, FALSE),
      Job(NoKey, "gone", 1, 0, TRUE) }

(* Handlers that may need their second or third attempt. *)
RetryJobs ==
    { Job(k1, "noop", 3, 0, TRUE), Job(NoKey, "noop", 2, 1, TRUE),
      Job(NoKey, "gone", 1, 0, TRUE) }

Topics == {"noop"}

Symmetry == Permutations(Messages) \cup Permutations(Workers)
=============================================================================
