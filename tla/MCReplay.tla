------------------------------ MODULE MCReplay ------------------------------
(* Replay on small instances. *)
EXTENDS Replay

CONSTANTS d1, d2, a, b, junk

New(event, reason) == [event |-> event, reason |-> reason, count |-> 0, trips |-> 0]

Both == {"poison", "retries_exhausted"}
Run(apply, verify, wanted, limit, max) ==
    [apply |-> apply, verify |-> verify, wanted |-> wanted, limit |-> limit, maxReplays |-> max]

\* make replay, with and without -verify, make dlq, and -reason all with a limit
\* and a laxer loop guard.
MCOptions == {Run(TRUE, TRUE, {"retries_exhausted"}, 0, 1), Run(FALSE, TRUE, Both, 0, 1),
              Run(TRUE, FALSE, {"retries_exhausted"}, 0, 1), Run(TRUE, TRUE, Both, 2, 2)}
OneOption == {Run(TRUE, TRUE, {"retries_exhausted"}, 0, 2)}

MCBacklog == {<<New(a, "retries_exhausted"), New(b, "poison")>>,
              <<New(junk, "poison"), New(b, "absent")>>}
\* One event parked twice, by two deliveries of its record.
TwiceBacklog == {<<New(a, "retries_exhausted"), New(a, "retries_exhausted")>>}
=============================================================================
