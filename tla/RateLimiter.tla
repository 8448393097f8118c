---------------------------- MODULE RateLimiter -----------------------------
(***************************************************************************)
(* One token bucket of counter/ratelimit.go, shared by the connections of  *)
(* a user or of the node in one direction: Wait for streams, Allow for     *)
(* packets, SetRate on every user sync and Close when the user is gone.    *)
(*                                                                         *)
(* Time goes in ticks and a rate is bytes per tick.  Only differences of   *)
(* times matter, so age is the time since l.last and sleep[w] what is left *)
(* of a sleep; a sleep ends at the first tick that is late enough.         *)
(***************************************************************************)
EXTENDS Integers, FiniteSets

CONSTANTS
    Waiters,   \* goroutines that move stream bytes
    Sizes,     \* lengths of their reads and writes
    Packets,   \* lengths of packets, at most MinBurst
    Rates,     \* rates that SetRate is called with, 0 for unlimited
    Rate0,     \* the rate given to NewRateLimiter
    MinBurst,  \* maxWriteChunk
    Window,    \* defaultBurstWindow, in ticks
    MaxAge     \* bound: ticks that fill the bucket from the deepest debt

ASSUME RateAssumption ==
    /\ IsFiniteSet(Waiters)
    /\ Rates \subseteq Nat
    /\ Rate0 \in Nat
    /\ MinBurst \in Nat \ {0}
    /\ Window \in Nat
    /\ MaxAge \in Nat
    /\ Sizes \subseteq Nat \ {0}
    /\ Packets \subseteq 1..MinBurst

VARIABLES
    rate, burst, tokens, disabled, closed,
    age,        \* time since l.last, up to MaxAge
    pc,         \* waiter -> where it is in Wait; "failed" once it got an error
    remaining,  \* waiter -> bytes of this Wait still to be reserved
    chunk,      \* waiter -> bytes it reserves next
    sleep,      \* waiter -> ticks of sleep left
    allowance,  \* history: what the contract of the bucket still permits
    inHand      \* history: waiters whose chunk is from before the last SetRate

bucketVars == <<rate, burst, tokens, disabled, closed, age>>
waitVars == <<pc, remaining, chunk, sleep>>
history == <<allowance, inHand>>
vars == <<bucketVars, waitVars, history>>

Least(a, b) == IF a < b THEN a ELSE b
Greatest(a, b) == IF a < b THEN b ELSE a
CeilDiv(a, b) == (a + b - 1) \div b

Burst(r) == Greatest(r * Window, MinBurst)

(* The contract: in any stretch of t ticks no more passes than a full      *)
(* bucket and what t ticks bring, and less than one tick more, for sleeps  *)
(* that end between two ticks.  It says nothing while the limiter is off.  *)
(* SetRate forgives the debt and changes the burst under a Wait, so the    *)
(* one chunk that a Wait then has in hand is outside of the contract.      *)
(* -1 says that it has been broken.                                        *)
Full == burst + rate - 1
Unlimited == disabled \/ rate <= 0
Spent(n) == IF Unlimited THEN allowance ELSE Greatest(-1, allowance - n)
Charge(w) ==
    /\ allowance' = IF w \in inHand THEN allowance ELSE Spent(chunk[w])
    /\ inHand' = inHand \ {w}

TypeOK ==
    /\ rate \in Rates \cup {0, Rate0}
    /\ burst \in Nat
    /\ tokens \in Int /\ tokens <= burst
    /\ disabled \in BOOLEAN /\ closed \in BOOLEAN
    /\ age \in Nat
    /\ pc \in [Waiters -> {"idle", "look", "reserve", "sleep", "failed"}]
    /\ remaining \in [Waiters -> Nat]
    /\ chunk \in [Waiters -> Nat]
    /\ sleep \in [Waiters -> Nat]
    /\ allowance \in Int
    /\ inHand \subseteq Waiters

(* NewRateLimiter.                                                         *)
Init ==
    /\ rate = Rate0
    /\ burst = Burst(Rate0)
    /\ tokens = 0
    /\ disabled = (Rate0 = 0)
    /\ closed = FALSE
    /\ age = 0
    /\ pc = [w \in Waiters |-> "idle"]
    /\ remaining = [w \in Waiters |-> 0]
    /\ chunk = [w \in Waiters |-> 0]
    /\ sleep = [w \in Waiters |-> 0]
    /\ allowance = Full
    /\ inHand = {}

-----------------------------------------------------------------------------
(* Mutant: the tokens are not capped at the burst.                         *)
RefilledUncapped == tokens + age * rate

(* The refill at the head of allow and reserve.                            *)
Refilled == Least(burst, tokens + age * rate)

(* RateLimitedConn: a read that got n bytes, or a write of n, calls        *)
(* Wait(n).                                                                *)
Wait(w) ==
    /\ pc[w] = "idle"
    /\ \E n \in Sizes : remaining' = [remaining EXCEPT ![w] = n]
    /\ pc' = [pc EXCEPT ![w] = "look"]
    /\ UNCHANGED <<bucketVars, chunk, sleep, history>>

(* The first critical section of an iteration: a chunk of at most the      *)
(* burst, or 0 when the limiter is off.                                    *)
ReadBurst(w) ==
    /\ pc[w] = "look"
    /\ chunk' = [chunk EXCEPT ![w] =
         IF Unlimited \/ closed THEN 0
         ELSE IF burst > 0 THEN Least(remaining[w], burst) ELSE remaining[w]]
    /\ pc' = [pc EXCEPT ![w] = "reserve"]
    /\ UNCHANGED <<bucketVars, remaining, sleep, history>>

(* Mutant: the chunk is not taken off what remains.                        *)
PassedKeeps(w) ==
    /\ pc' = [pc EXCEPT ![w] = IF chunk[w] = 0 THEN "idle" ELSE "look"]
    /\ remaining' = remaining

(* What Wait does after a chunk: the next iteration or the return.  With   *)
(* chunk 0 it returns at once.                                             *)
Passed(w) ==
    LET left == remaining[w] - chunk[w] IN
    IF chunk[w] = 0 \/ left = 0
    THEN /\ pc' = [pc EXCEPT ![w] = "idle"]
         /\ remaining' = [remaining EXCEPT ![w] = 0]
    ELSE /\ pc' = [pc EXCEPT ![w] = "look"]
         /\ remaining' = [remaining EXCEPT ![w] = left]

(* Mutant: reserve looks at disabled before it looks at closed.            *)
ReserveClosedLast(w) ==
    /\ pc[w] = "reserve"
    /\ \/ /\ Unlimited \/ chunk[w] = 0
          /\ Passed(w)
          /\ Charge(w)
          /\ UNCHANGED <<bucketVars, sleep>>
       \/ /\ ~(Unlimited \/ chunk[w] = 0)
          /\ LET need == Least(chunk[w], burst) IN
             /\ tokens' = Refilled - need
             /\ age' = 0
             /\ IF Refilled >= need
                THEN Passed(w) /\ Charge(w) /\ UNCHANGED sleep
                ELSE /\ sleep' = [sleep EXCEPT ![w] = CeilDiv(need - Refilled, rate)]
                     /\ pc' = [pc EXCEPT ![w] = "sleep"]
                     /\ UNCHANGED <<remaining, history>>
          /\ UNCHANGED <<rate, burst, disabled, closed>>
    /\ UNCHANGED chunk

(* reserve: ErrLimiterClosed ends Wait; a limiter that is off lets the     *)
(* chunk pass; otherwise the chunk is charged at once, into debt if the    *)
(* bucket does not hold enough, and Wait sleeps for what is missing.       *)
Reserve(w) ==
    /\ pc[w] = "reserve"
    /\ \/ /\ closed
          /\ pc' = [pc EXCEPT ![w] = "failed"]
          /\ remaining' = [remaining EXCEPT ![w] = 0]
          /\ inHand' = inHand \ {w}
          /\ UNCHANGED <<bucketVars, sleep, allowance>>
       \/ /\ ~closed /\ (Unlimited \/ chunk[w] = 0)
          /\ Passed(w)
          /\ Charge(w)
          /\ UNCHANGED <<bucketVars, sleep>>
       \/ /\ ~closed /\ ~(Unlimited \/ chunk[w] = 0)
          /\ LET need == Least(chunk[w], burst) IN
             /\ tokens' = Refilled - need
             /\ age' = 0
             /\ IF Refilled >= need
                THEN Passed(w) /\ Charge(w) /\ UNCHANGED sleep
                ELSE /\ sleep' = [sleep EXCEPT ![w] = CeilDiv(need - Refilled, rate)]
                     /\ pc' = [pc EXCEPT ![w] = "sleep"]
                     /\ UNCHANGED <<remaining, history>>
          /\ UNCHANGED <<rate, burst, disabled, closed>>
    /\ UNCHANGED chunk

(* time.Sleep returns.                                                     *)
Wake(w) ==
    /\ pc[w] = "sleep"
    /\ sleep[w] = 0
    /\ Passed(w)
    /\ Charge(w)
    /\ UNCHANGED <<bucketVars, chunk, sleep>>

(* Allow(n), all in one critical section: a packet passes or is dropped.   *)
(* A limiter that is closed or off changes nothing.                        *)
Allow(n) ==
    /\ ~closed /\ ~Unlimited
    /\ age' = 0
    /\ IF Refilled >= Least(n, burst)
       THEN tokens' = Refilled - Least(n, burst) /\ allowance' = Spent(n)
       ELSE tokens' = Refilled /\ UNCHANGED allowance
    /\ UNCHANGED <<rate, burst, disabled, closed, waitVars, inHand>>

(* RateLimitedPacketConn.                                                  *)
TransferPacket == \E n \in Packets : Allow(n)

-----------------------------------------------------------------------------
(* Mutant: a burst that shrinks leaves the tokens as they are.             *)
SetRateKeepsTokens(r) ==
    /\ ~closed
    /\ rate' = r
    /\ burst' = Burst(r)
    /\ disabled' = (r = 0)
    /\ tokens' = IF r = 0 \/ tokens < 0 THEN 0 ELSE tokens
    /\ age' = IF r = 0 THEN age ELSE 0
    /\ allowance' = IF r = 0 THEN allowance ELSE Least(Burst(r) + r - 1, allowance)
    /\ inHand' = {w \in Waiters : pc[w] \in {"reserve", "sleep"}}
    /\ UNCHANGED <<closed, waitVars>>

(* SetRate(r).  The manager drops a limiter it has closed, so it never     *)
(* calls SetRate on one.                                                   *)
SetRate(r) ==
    /\ ~closed
    /\ rate' = r
    /\ burst' = Burst(r)
    /\ disabled' = (r = 0)
    /\ tokens' = IF r = 0 \/ tokens < 0 \/ tokens > Burst(r) THEN 0 ELSE tokens
    /\ age' = IF r = 0 THEN age ELSE 0
    /\ allowance' = IF r = 0 THEN allowance ELSE Least(Burst(r) + r - 1, allowance)
    /\ inHand' = {w \in Waiters : pc[w] \in {"reserve", "sleep"}}
    /\ UNCHANGED <<closed, waitVars>>

Close ==
    /\ ~closed
    /\ closed' = TRUE
    /\ disabled' = TRUE
    /\ rate' = 0
    /\ burst' = 0
    /\ tokens' = 0
    /\ UNCHANGED <<age, waitVars, history>>

(* Time passes.  A sleeper that is due wakes before the next tick.         *)
Tick ==
    /\ \A w \in Waiters : pc[w] = "sleep" => sleep[w] > 0
    /\ sleep' = [w \in Waiters |-> IF pc[w] = "sleep" THEN sleep[w] - 1 ELSE sleep[w]]
    /\ age' = Least(MaxAge, age + 1)
    /\ allowance' = IF Unlimited THEN allowance ELSE Least(Full, allowance + rate)
    /\ UNCHANGED <<rate, burst, tokens, disabled, closed, pc, remaining, chunk, inHand>>

-----------------------------------------------------------------------------
Step(w) == ReadBurst(w) \/ Reserve(w) \/ Wake(w)

Next ==
    \/ \E w \in Waiters : Wait(w) \/ Step(w)
    \/ TransferPacket
    \/ \E r \in Rates : SetRate(r)
    \/ Close
    \/ Tick

Spec == Init /\ [][Next]_vars

(* The Go scheduler runs every goroutine that can run, and time passes.    *)
FairSpec == Spec /\ WF_vars(Tick) /\ \A w \in Waiters : WF_vars(Step(w))

-----------------------------------------------------------------------------
(* "ensuring the VPS never exceeds the overall machine bandwidth limit"    *)
(* (README_EN) and "Precise, isolated rate-limiting per user": whatever    *)
(* the connections do at the same time, in no stretch of time do reserve   *)
(* and allow let more pass than a full bucket and the rate, although every *)
(* user sync calls SetRate, which forgives the debt: what it lets off is   *)
(* at most the one chunk that each Wait has in hand at that moment.        *)
RateBound == allowance >= 0

(* After Close no byte is let through that had not been charged before:    *)
(* reserve gives an error although Close also disables the limiter, which  *)
(* on its own means unlimited, and although Wait may have read the burst   *)
(* before the Close.                                                       *)
ClosedCutsOff ==
    [][\A w \in Waiters : closed /\ pc[w] = "reserve" => pc'[w] \in {"reserve", "failed"}]_vars

(* Every Wait returns, through changes of the rate and Close: nobody       *)
(* sleeps or loops for ever in a bucket that was closed, or whose rate or  *)
(* burst changed under it.                                                 *)
WaitReturns == \A w \in Waiters : pc[w] = "look" ~> pc[w] \in {"idle", "failed"}

=============================================================================
