-------------------------- MODULE MCRuntimeRecovery --------------------------
(* A window of six ticks: back-off 1, 2, 3, 5 as computed by the code's loop. *)
EXTENDS RuntimeRecovery

Window == 6
Delays == BackoffTable(1, Window)

\* The production constants, FIRST_RETRY_MS = 1618 and STABLE_WINDOW_MS = 90000.
ASSUME ProductionBackoff ==
    BackoffTable(1618, 90000) = <<1618, 2618, 4236, 6854, 11090, 17944, 29033, 46975, 76006>>
==============================================================================
