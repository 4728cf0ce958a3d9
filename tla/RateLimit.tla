----------------------------- MODULE RateLimit -----------------------------
(***************************************************************************)
(* The limit RateLimitGuard puts on one caller of one endpoint: a counter  *)
(* that starts with the first request and expires, and a block that starts *)
(* with the first request beyond the limit. Both are keys in Redis, read   *)
(* and written by single commands with other requests and time in between. *)
(*                                                                         *)
(* Time is a number of ticks. Requests are not bounded: the counter stops  *)
(* growing at the limit.                                                   *)
(***************************************************************************)
EXTENDS Integers, FiniteSets, Functions

CONSTANTS
    LimitHandlers,  \* requests of the caller in flight at once
    Points,         \* requests admitted in a window
    Duration,       \* the length of a window, in ticks
    BlockDuration   \* how long a caller who exceeds it is blocked

\* Every tier and every override of rate-limit.config.ts blocks for at least as
\* long as its window is. The process serves finitely many requests at once.
ASSUME LimitAssumption ==
    /\ IsFiniteSet(LimitHandlers)
    /\ Points \in Nat \ {0}
    /\ Duration \in Nat \ {0}
    /\ BlockDuration \in Nat /\ BlockDuration >= Duration

VARIABLES
    counter,        \* the counter: its value, 0 if the key is absent, and its TTL
    block,          \* the TTL of the block, 0 if there is none
    limitHandler,
    \* What happened, for the properties:
    recent,         \* requests admitted in this tick and in the Duration - 1 before
    crowded         \* two requests of the caller have been in flight together

limitVars == <<counter, block, limitHandler, recent, crowded>>

NoCounter == [count |-> 0, left |-> 0]
IdleLimit == [pc |-> "idle", seen |-> 0]

LimitInit ==
    /\ counter = NoCounter
    /\ block = 0
    /\ limitHandler = [h \in LimitHandlers |-> IdleLimit]
    /\ recent = [t \in 1..Duration |-> 0]
    /\ crowded = FALSE

LimitAt(h, pc) == limitHandler[h].pc = pc
LimitGoes(h, pc, seen) ==
    limitHandler' = [limitHandler EXCEPT ![h] = [pc |-> pc, seen |-> seen]]
LimitAnswers(h) == limitHandler' = [limitHandler EXCEPT ![h] = IdleLimit]

-----------------------------------------------------------------------------
(* checkRateLimit, from command to command.                                *)

\* GET of the block: a blocked caller is refused with the time that is left.
\* Mutant: every refusal renews the block.
CheckBlockMutantRenew(h) ==
    /\ LimitAt(h, "idle")
    /\ block' = IF block > 0 THEN BlockDuration ELSE 0
    /\ IF block > 0 THEN LimitAnswers(h) ELSE LimitGoes(h, "count", 0)
    /\ crowded' = (crowded \/ \E g \in LimitHandlers : ~LimitAt(g, "idle"))
    /\ UNCHANGED <<counter, recent>>
CheckBlock(h) ==
    /\ LimitAt(h, "idle")
    /\ IF block > 0 THEN LimitAnswers(h) ELSE LimitGoes(h, "count", 0)
    /\ crowded' = (crowded \/ \E g \in LimitHandlers : ~LimitAt(g, "idle"))
    /\ UNCHANGED <<counter, block, recent>>

\* GET of the counter.
\* Mutant: the limit itself is still admitted.
ExceedsMutantOneMore(count) == count > Points
Exceeds(count) == count >= Points

ReadCount(h) ==
    /\ LimitAt(h, "count")
    /\ IF Exceeds(counter.count) THEN LimitGoes(h, "block", 0)
                                 ELSE LimitGoes(h, "consume", counter.count)
    /\ UNCHANGED <<counter, block, recent, crowded>>

SetBlock(h) ==
    /\ LimitAt(h, "block")
    /\ block' = BlockDuration
    /\ LimitAnswers(h)
    /\ UNCHANGED <<counter, recent, crowded>>

\* SET with an expiry for the first request of a window, INCR for the others:
\* on a key that has expired since it was read, INCR makes a counter of 1 that
\* never expires (left = 0).
Consumed(seen) ==
    IF seen = 0 THEN [count |-> 1, left |-> Duration]
    ELSE [counter EXCEPT !.count = @ + 1]

Consume(h) ==
    /\ LimitAt(h, "consume")
    /\ counter' = Consumed(limitHandler[h].seen)
    /\ recent' = [recent EXCEPT ![1] = @ + 1]
    /\ LimitAnswers(h)
    /\ UNCHANGED <<block, crowded>>

\* A command fails: the guard throws and the request is refused.
FailLimit(h) ==
    /\ ~LimitAt(h, "idle")
    /\ LimitAnswers(h)
    /\ UNCHANGED <<counter, block, recent, crowded>>

-----------------------------------------------------------------------------
\* A counter with a TTL dies with it; one without stays.
LimitTick ==
    /\ counter' = CASE counter.left > 1 -> [counter EXCEPT !.left = @ - 1]
                    [] counter.left = 1 -> NoCounter
                    [] OTHER -> counter
    /\ block' = IF block > 0 THEN block - 1 ELSE 0
    /\ recent' = [t \in 1..Duration |-> IF t = 1 THEN 0 ELSE recent[t - 1]]
    /\ UNCHANGED <<limitHandler, crowded>>

LimitNext ==
    \/ \E h \in LimitHandlers :
         CheckBlock(h) \/ ReadCount(h) \/ SetBlock(h) \/ Consume(h) \/ FailLimit(h)
    \/ LimitTick

\* Time passes; nobody is obliged to send or to finish a request.
LimitFairness == WF_limitVars(LimitTick)
LimitSpec == LimitInit /\ [][LimitNext]_limitVars /\ LimitFairness

-----------------------------------------------------------------------------
(* Properties.                                                             *)

LimitTypeOK ==
    /\ counter \in [count : 0..(Points + Cardinality(LimitHandlers)), left : 0..Duration]
    /\ block \in 0..BlockDuration
    /\ limitHandler \in [LimitHandlers ->
         [pc : {"idle", "count", "block", "consume"}, seen : 0..(Points - 1)]]
    /\ recent \in [1..Duration -> Nat]
    /\ crowded \in BOOLEAN

\* A caller who sends one request at a time is never admitted more often than
\* 2 * Points - 1 times in any stretch of Duration: windows are fixed, so the
\* end of one and the start of the next may meet, but even a counter that
\* expires between its GET and its INCR lets no more through.
LimitHolds ==
    ~crowded => SumFunction(recent) <= 2 * Points - 1

Refusing == block > 0 \/ Exceeds(counter.count)
Immortal == counter.count > 0 /\ counter.left = 0

\* Every refusal ends: whoever is refused is admissible again once time has
\* passed, however often they go on asking and with any number of requests in
\* flight, unless a counter has lost its expiry to an INCR that came too late.
LimitLifts == Refusing ~> (~Refusing \/ Immortal)
=============================================================================
