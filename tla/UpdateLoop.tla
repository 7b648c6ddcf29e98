----------------------------- MODULE UpdateLoop -----------------------------
(***************************************************************************)
(* The update loop's gate (cmd/main.go, pkg/ratelimit/limiter.go): what it *)
(* does with an update before a handler sees it.  A bucket is filled only  *)
(* when it is looked at, by the time since it was last looked at.          *)
(*                                                                         *)
(* Time is counted in ticks, Minute of them to the minute, and tokens in   *)
(* units, Cost of them to the token, so that permitsPerMinute is           *)
(* Burst / Cost, which need not be a whole number.  The rounding of the    *)
(* code's floating point numbers is left out.                              *)
(***************************************************************************)
EXTENDS Integers

CONSTANTS
  Senders,       \* everyone who writes to the bot
  Operators,   \* cfg.AuthorizedSet
  Minute, Cost,
  Rate         \* units a bucket gains per tick: refillPerSec

ASSUME LimiterAssumption == /\ Operators \subseteq Senders
                            /\ Minute \in Nat \ {0}
                            /\ Cost \in Nat \ {0}
                            /\ Rate \in Nat \ {0}

Burst == Minute * Rate      \* maxTokens

VARIABLES
  known,      \* the chats that have a bucket
  tokens,     \* what was left in it when it was last looked at
  idle,       \* ticks since then, up to Minute
  verdict,    \* the last update: its chat and how it was received
  granted     \* history: by chat and n < Minute, calls granted since n ticks ago

bucket   == <<known, tokens, idle>>
gateVars == <<bucket, verdict, granted>>

InitGate == /\ known = {}
            /\ tokens = [c \in Senders |-> 0]
            /\ idle = [c \in Senders |-> 0]
            /\ verdict = <<>>
            /\ granted = [c \in Senders |-> [n \in 0 .. Minute - 1 |-> 0]]

----------------------------------------------------------------------------
(* Limiter.Allow *)

\* Mutant: the bucket overflows.
RefilledOver(c) == tokens[c] + idle[c] * Rate

Refilled(c) == IF tokens[c] + idle[c] * Rate > Burst
               THEN Burst ELSE tokens[c] + idle[c] * Rate

Looked(c, left) == /\ tokens' = [tokens EXCEPT ![c] = left]
                   /\ idle' = [idle EXCEPT ![c] = 0]

\* The first call of a chat is granted without a look at the allowance.
AllowFirst(c) == /\ c \notin known
                 /\ known' = known \cup {c}
                 /\ Looked(c, Burst - Cost)

AllowMore(c) == /\ c \in known /\ Refilled(c) >= Cost
                /\ Looked(c, Refilled(c) - Cost)
                /\ UNCHANGED known

\* Mutants: a refused call is charged like any other; it returns before
\* lastRefill is moved on.
DenyCharged(c) == /\ c \in known /\ Refilled(c) < Cost
                  /\ Looked(c, Refilled(c) - Cost)
                  /\ UNCHANGED known
DenyUnmoved(c) == /\ c \in known /\ Refilled(c) < Cost
                  /\ tokens' = [tokens EXCEPT ![c] = Refilled(c)]
                  /\ UNCHANGED <<known, idle>>

Deny(c) == /\ c \in known /\ Refilled(c) < Cost
           /\ Looked(c, Refilled(c))
           /\ UNCHANGED known

----------------------------------------------------------------------------
(* handleUpdate: authorization first, then the limiter, then a handler. *)

Stranger(c) == /\ c \notin Operators
               /\ verdict' = <<c, "stranger">>
               /\ UNCHANGED <<bucket, granted>>

Handled(c) == /\ c \in Operators
              /\ AllowFirst(c) \/ AllowMore(c)
              /\ verdict' = <<c, "granted">>
              /\ granted' = [granted EXCEPT ![c] = [n \in DOMAIN @ |-> @[n] + 1]]

Limited(c) == /\ c \in Operators
              /\ Deny(c)
              /\ verdict' = <<c, "refused">>
              /\ UNCHANGED granted

handleUpdate(c) == Stranger(c) \/ Handled(c) \/ Limited(c)

\* A bucket that was not looked at for a minute is full, however long it is.
Clock ==
  /\ idle' = [c \in Senders |-> IF idle[c] < Minute THEN idle[c] + 1 ELSE Minute]
  /\ granted' = [c \in Senders |-> [n \in 0 .. Minute - 1 |->
                   IF n = 0 THEN 0 ELSE granted[c][n - 1]]]
  /\ verdict' = <<>>
  /\ UNCHANGED <<known, tokens>>

NextGate == Clock \/ \E c \in Senders : handleUpdate(c)

SpecGate == InitGate /\ [][NextGate]_gateVars

----------------------------------------------------------------------------
\* Every variable holds a value of its type; a bucket is never overdrawn.
GateTypeOK == /\ known \subseteq Senders
              /\ tokens \in [Senders -> 0 .. Burst]
              /\ idle \in [Senders -> 0 .. Minute]
              /\ verdict \in {<<>>} \cup
                   (Senders \X {"stranger", "granted", "refused"})
              /\ granted \in [Senders -> [0 .. Minute - 1 -> Nat]]

\* Over no stretch of a minute or less is a chat granted more than a full bucket
\* and what has flowed in since (limiter.go:25-26): never twice its allowance.
MinuteIsBounded ==
  \A c \in Operators : \A n \in 0 .. Minute - 1 :
    granted[c][n] * Cost <= Burst + n * Rate

\* main.go:128, "Try semula dalam seminit" (try again in a minute): an operator
\* who has been quiet for as long as one token takes to flow in is let through.
RestIsEnough ==
  [][\A c \in Operators :
       verdict' = <<c, "refused">> => idle[c] * Rate < Cost]_gateVars

\* main.go:118: whoever is not an operator leaves no trace in the limiter, so
\* the number of its buckets is bounded by the configuration.
OnlyOperatorsHaveBuckets == known \subseteq Operators

\* Filling a bucket only when it is looked at, and never ageing past a minute,
\* is not observable: the limiter is a plain token bucket.
Level(c) == IF c \in known THEN Refilled(c) ELSE Burst
Eager == INSTANCE TokenBucket WITH
  Chats   <- Operators,
  level   <- [c \in Operators |-> Level(c)],
  verdict <- IF verdict # <<>> /\ verdict[2] = "stranger" THEN <<>> ELSE verdict
IsATokenBucket == Eager!Spec
=============================================================================
