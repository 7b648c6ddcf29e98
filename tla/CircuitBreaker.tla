--------------------------- MODULE CircuitBreaker ---------------------------
(***************************************************************************)
(* What FallbackAgent (pkg/ai/fallback.go:12-15) promises the callers of   *)
(* an AI agent, with every decision taken at once: after MaxFailures       *)
(* failures in a row the agent is left alone for Window minutes, and then  *)
(* tried again with a clean record.                                        *)
(***************************************************************************)
EXTENDS Integers

CONSTANTS MaxFailures, Window

VARIABLES
  failures,   \* failures in a row
  left        \* minutes offline that are left; Off: online

Off == -1

Init == failures = 0 /\ left = Off

Fails == /\ left = Off
         /\ failures' = failures + 1
         /\ left' = IF failures' >= MaxFailures THEN Window ELSE Off

Succeeds == left = Off /\ failures' = 0 /\ UNCHANGED left

TryAgain == left = 0 /\ left' = Off /\ failures' = 0

Clock == left > 0 /\ left' = left - 1 /\ UNCHANGED failures

Next == Fails \/ Succeeds \/ TryAgain \/ Clock

Spec == Init /\ [][Next]_<<failures, left>>
=============================================================================
