------------------------------ MODULE PulseLock ------------------------------
(***************************************************************************)
(* What the pulse clock promises: the phase of the second since the last   *)
(* edge on the PPS pin, and only when the pin has proved itself by LockRun *)
(* edges in a row that came when one was due.  One pin, one task asking;   *)
(* edges and answers are atomic.  RideClock implements it.                 *)
(*                                                                         *)
(* Time is in ticks; a real tick is a microsecond.                         *)
(***************************************************************************)
EXTENDS Integers, Sequences

CONSTANTS
    Period,    \* PULSE_PERIOD_US
    Tolerance, \* PULSE_TOLERANCE_US
    MaxSkip,   \* PULSE_MAX_SKIP
    LockRun,   \* PULSE_LOCK_RUN
    Stale,     \* PULSE_STALE_US
    NoPhase    \* the answer "not locked"

VARIABLES
    now,     \* the time
    edges,   \* when the edges came
    asked,   \* the time the task looked at before asking
    answer   \* what it was told last

vars == <<now, edges, asked, answer>>

Init == now = 0 /\ edges = << >> /\ asked = 0 /\ answer = NoPhase

\* An edge is due a period after the last, or where one or more were missed.
Due(gap) ==
    /\ gap > 0
    /\ \E skip \in 1 .. MaxSkip :
          gap \in Period * skip - Tolerance .. Period * skip + Tolerance

\* The last n edges all came when due.
InStep(n) ==
    /\ n < Len(edges)
    /\ \A i \in Len(edges) - n + 1 .. Len(edges) : Due(edges[i] - edges[i - 1])

Phase(t) ==
    IF /\ InStep(LockRun)
       /\ edges[Len(edges)] <= t
       /\ t - edges[Len(edges)] <= Stale
    THEN (t - edges[Len(edges)]) % Period
    ELSE NoPhase

Tick == now' = now + 1 /\ UNCHANGED <<edges, asked, answer>>

Edge == edges' = Append(edges, now) /\ UNCHANGED <<now, asked, answer>>

Ask == asked' = now /\ UNCHANGED <<now, edges, answer>>

Answer == answer' = Phase(asked) /\ UNCHANGED <<now, edges, asked>>

\* Too many edges while it looked.
GiveUp == answer' = NoPhase /\ UNCHANGED <<now, edges, asked>>

Next == Tick \/ Edge \/ Ask \/ Answer \/ GiveUp

Spec == Init /\ [][Next]_vars
=============================================================================
