-------------------------------- MODULE Relay --------------------------------
(***************************************************************************)
(* relay_with_idle_policy: one copy future for both directions, and a loop *)
(* that sleeps until the last activity it knew plus the idle timeout. Bytes *)
(* that move do not wake the loop; they only store the time in `activity`. *)
(*                                                                         *)
(* Time passes in ticks. Since only differences matter, the stored instant *)
(* is kept as its age and the deadline as the ticks left to it.            *)
(***************************************************************************)
EXTENDS Naturals

CONSTANT IdleTimeout   \* the timeout in ticks

ASSUME RelayAssumption == IdleTimeout \in Nat \ {0}

VARIABLES
  relay,   \* "none", "running", or how relay_with_idle_policy returned
  policy,  \* idle_timeout.is_some()
  idle,    \* the age of `activity`
  timer,   \* ticks until the sleep ends
  buffer,  \* each direction holds bytes it has read and not yet written
  side,    \* each direction: open, at the end of its input, or shut down
  quiet    \* ticks since a byte was read or written (history)

relayVars == <<relay, policy, idle, timer, buffer, side, quiet>>

Directions == {"ab", "ba"}

RelayTypeOK ==
  /\ relay \in {"none", "running", "copied", "failed", "expired"} /\ policy \in BOOLEAN
  /\ idle \in 0 .. IdleTimeout /\ timer \in 0 .. IdleTimeout /\ quiet \in 0 .. IdleTimeout
  /\ buffer \in [Directions -> BOOLEAN]
  /\ side \in [Directions -> {"open", "eof", "shut"}]

\* A TCP stream is relayed (start = "running"), or there is none.
RelayInit(start) ==
  /\ relay = start /\ policy \in (IF start = "none" THEN {FALSE} ELSE BOOLEAN)
  /\ idle = 0 /\ timer = IdleTimeout /\ quiet = 0
  /\ buffer = [d \in Directions |-> FALSE]
  /\ side = [d \in Directions |-> "open"]

-----------------------------------------------------------------------------
(* ActivityStream                                                          *)

\* Fault: every poll counts as activity.
TouchedByPoll(moved) == 0

\* Only bytes that moved set `activity`: a poll that is pending, or that
\* reports the end of the input, leaves it alone.
Touched(moved) == IF moved THEN 0 ELSE idle

Read(d) ==
  /\ relay = "running" /\ side[d] = "open" /\ ~buffer[d]
  /\ buffer' = [buffer EXCEPT ![d] = TRUE]
  /\ idle' = Touched(TRUE) /\ quiet' = 0
  /\ UNCHANGED <<relay, policy, timer, side>>

Write(d) ==
  /\ relay = "running" /\ buffer[d]
  /\ buffer' = [buffer EXCEPT ![d] = FALSE]
  /\ idle' = Touched(TRUE) /\ quiet' = 0
  /\ UNCHANGED <<relay, policy, timer, side>>

\* The copy is polled and moves nothing; perhaps it meets the end of an input.
Poll(d, end) ==
  /\ relay = "running"
  /\ end => side[d] = "open"
  /\ side' = [side EXCEPT ![d] = IF end THEN "eof" ELSE @]
  /\ idle' = Touched(FALSE)
  /\ UNCHANGED <<relay, policy, timer, buffer, quiet>>

-----------------------------------------------------------------------------
(* copy_bidirectional (external): one direction ends, the other goes on.    *)

Shut(d) ==
  /\ relay = "running" /\ side[d] = "eof" /\ ~buffer[d]
  /\ side' = [side EXCEPT ![d] = "shut"]
  /\ UNCHANGED <<relay, policy, idle, timer, buffer, quiet>>

CopyEnds(result) ==
  /\ relay = "running"
  /\ result = "copied" => \A d \in Directions : side[d] = "shut"
  /\ relay' = result
  /\ UNCHANGED <<policy, idle, timer, buffer, side, quiet>>

-----------------------------------------------------------------------------
(* The loop around it.                                                     *)

Aged(ticks) == IF ticks < IdleTimeout THEN ticks + 1 ELSE ticks

Tick ==
  /\ relay = "running"
  /\ idle' = Aged(idle) /\ quiet' = Aged(quiet)
  /\ timer' = IF timer > 0 THEN timer - 1 ELSE 0
  /\ UNCHANGED <<relay, policy, buffer, side>>

\* Fault: the sleep's end is the verdict.
ExpiredBySleep == TRUE

Expired == idle >= IdleTimeout

\* The sleep ends: `activity` is looked at again, and the sleep renewed from it.
SleepEnds ==
  /\ relay = "running" /\ policy /\ timer = 0
  /\ relay' = IF Expired THEN "expired" ELSE "running"
  /\ timer' = IdleTimeout - idle
  /\ UNCHANGED <<policy, idle, buffer, side, quiet>>

RelayNext ==
  \/ Tick \/ SleepEnds
  \/ \E d \in Directions :
       Read(d) \/ Write(d) \/ Shut(d) \/ \E end \in BOOLEAN : Poll(d, end)
  \/ \E result \in {"copied", "failed"} : CopyEnds(result)

\* Time passes and timers fire; no peer has to do anything.
RelayFairness == WF_relayVars(Tick) /\ WF_relayVars(SleepEnds)

-----------------------------------------------------------------------------

\* A relay expires only after a whole idle period in which no byte moved in
\* either direction, although the sleep was set for an older activity; without
\* a timeout it never expires.
ExpiresOnlyIdle == relay = "expired" => policy /\ quiet >= IdleTimeout

\* A relay with a timeout that has fallen silent ends, also when it is half
\* closed, has bytes a peer does not take, or is polled again and again.
SilentRelayEnds ==
  relay = "running" /\ policy /\ quiet >= IdleTimeout
    ~> relay # "running" \/ quiet < IdleTimeout
=============================================================================
