---------------------------- MODULE DomainThrottle ----------------------------
(***************************************************************************)
(* DomainThrottler.acquire (app/core/domain_throttler.py): the callers     *)
(* that fetch pages of one domain share the moment of its last request in  *)
(* one Redis key.  The key is read by one command and written by another,  *)
(* and a caller that has slept does not read it again.                     *)
(*                                                                         *)
(* A command takes less than a tick of the clock and a sleep ends at its   *)
(* tick, so time passes only while every caller sleeps or has nothing to   *)
(* do; within a tick the commands of the callers interleave.               *)
(***************************************************************************)
EXTENDS Integers

CONSTANTS
    Callers,      \* tasks that fetch pages of the domain
    RATE,         \* RATE_LIMIT_INTERVAL, in ticks
    FALLBACK,     \* FALLBACK_DELAY
    TTL,          \* TTL_SECONDS
    MaxTicks      \* bound: ticks of the clock

ASSUME ThrottleAssumption ==
    /\ {RATE, FALLBACK, TTL} \subseteq Nat \ {0}
    /\ RATE <= FALLBACK /\ RATE <= TTL

VARIABLES
    slot,     \* value of the key throttle:domain:<domain>, or NoSlot
    caller,   \* locals of each call of acquire
    now,      \* time.time()
    recorded  \* moment at which the last caller went that wrote the key (history)

thrVars == <<slot, caller, now, recorded>>

NoSlot == -1

Idle == [pc |-> "idle", asked |-> 0, wake |-> 0, went |-> 0, after |-> NoSlot]

ThrInit ==
    /\ slot = NoSlot
    /\ caller = [c \in Callers |-> Idle]
    /\ now = 0
    /\ recorded = NoSlot

-----------------------------------------------------------------------------

At(c, pc) == caller[c].pc = pc
Move(c, pc) == caller' = [caller EXCEPT ![c].pc = pc]
SleepFor(c, pc, ticks) == caller' = [caller EXCEPT ![c] = [@ EXCEPT !.pc = pc, !.wake = now + ticks]]

(* A call begins: it reads the time, then asks for the key.                *)
Ask(c) ==
    /\ caller[c].pc \in {"idle", "went"}
    /\ now < MaxTicks
    /\ caller' = [caller EXCEPT ![c] = [Idle EXCEPT !.pc = "get", !.asked = now, !.after = recorded]]
    /\ UNCHANGED <<slot, now, recorded>>

(* Mutant: a caller goes when it should have slept.                        *)
GetWithoutSleep(c) ==
    /\ At(c, "get")
    /\ Move(c, "set")
    /\ UNCHANGED <<slot, now, recorded>>

Get(c) ==
    /\ At(c, "get")
    /\ LET elapsed == caller[c].asked - slot IN
       IF slot = NoSlot \/ elapsed >= RATE
       THEN Move(c, "set")
       ELSE SleepFor(c, "sleep", RATE - elapsed)
    /\ UNCHANGED <<slot, now, recorded>>

Wake(c) ==
    /\ At(c, "sleep")
    /\ now >= caller[c].wake
    /\ Move(c, "set")
    /\ UNCHANGED <<slot, now, recorded>>

(* The value written is the time read before the first command, or after   *)
(* the sleep: it is of this tick.  The caller then goes.                   *)
Put(c) ==
    /\ At(c, "set")
    /\ slot' = now
    /\ recorded' = now
    /\ caller' = [caller EXCEPT ![c] = [@ EXCEPT !.pc = "went", !.went = now]]
    /\ UNCHANGED now

(* Either command fails: a fixed delay, and nothing is written.            *)
RedisFails(c) ==
    /\ At(c, "get") \/ At(c, "set")
    /\ SleepFor(c, "fallback", FALLBACK)
    /\ UNCHANGED <<slot, now, recorded>>

GoUnrecorded(c) ==
    /\ At(c, "fallback")
    /\ now >= caller[c].wake
    /\ caller' = [caller EXCEPT ![c] = [@ EXCEPT !.pc = "went", !.went = now]]
    /\ UNCHANGED <<slot, now, recorded>>

Expire ==
    /\ slot # NoSlot
    /\ now - slot >= TTL
    /\ slot' = NoSlot
    /\ UNCHANGED <<caller, now, recorded>>

Asleep(c) == caller[c].pc \in {"sleep", "fallback"} /\ now < caller[c].wake

ThrTick ==
    /\ now < MaxTicks + RATE + FALLBACK
    /\ \A c \in Callers : Asleep(c) \/ caller[c].pc \in {"idle", "went"}
    /\ now' = now + 1
    /\ UNCHANGED <<slot, caller, recorded>>

ThrNext ==
    \/ \E c \in Callers : Ask(c) \/ Get(c) \/ Wake(c) \/ Put(c) \/ RedisFails(c) \/ GoUnrecorded(c)
    \/ Expire
    \/ ThrTick

ThrSpec == ThrInit /\ [][ThrNext]_thrVars

-----------------------------------------------------------------------------
\* Properties.

(* Every variable has its type; a caller sleeps for a tick at least.       *)
ThrTypeOK ==
    /\ slot \in Nat \cup {NoSlot}
    /\ recorded \in Nat \cup {NoSlot}
    /\ \A c \in Callers :
        /\ caller[c].pc \in {"idle", "get", "sleep", "set", "fallback", "went"}
        /\ caller[c].pc \in {"sleep", "fallback"} => caller[c].wake > caller[c].asked
        /\ caller[c].went <= now

(* A caller that asks after another has gone and has written the key goes  *)
(* a full interval after it: only calls that overlap, or of which Redis    *)
(* lost one, go together.                                                  *)
RequestsAreSpaced ==
    \A c \in Callers :
        At(c, "went") /\ caller[c].after # NoSlot => caller[c].went - caller[c].after >= RATE

(* No caller waits longer than an interval and the delay of a failure: the *)
(* callers do not queue behind one another.                                *)
WaitIsBounded ==
    \A c \in Callers :
        caller[c].pc \notin {"idle", "went"} => now - caller[c].asked <= RATE + FALLBACK

(* The throttle spaces the calls that do not overlap, and delays none for  *)
(* longer than it must.                                                    *)
ThrottleSafety == ThrTypeOK /\ RequestsAreSpaced /\ WaitIsBounded
=============================================================================
