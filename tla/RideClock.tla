------------------------------ MODULE RideClock ------------------------------
(***************************************************************************)
(* The pulse clock (touge/rideclock.cpp), access by access: onPulse in the *)
(* interrupt handler of the PPS pin, phaseMs in the task, and the memory   *)
(* they share without a lock.  The 64-bit time of the last edge is two     *)
(* words, stored and loaded one at a time in either order.  The counter    *)
(* seq is odd while a write is in progress; the reader tries again when it *)
(* was, or when it moved.                                                  *)
(*                                                                         *)
(* The interrupt may run on the other core, so its stores interleave with  *)
(* the reader's loads; both run in program order (the fields are volatile, *)
(* in internal RAM).  seq is a natural: 32 bits last 68 years of edges.    *)
(***************************************************************************)
EXTENDS Integers, Sequences

CONSTANTS
    Period, Tolerance, MaxSkip, LockRun, Stale, NoPhase,  \* as in PulseLock
    Word,      \* values of the low word of a time
    Attempts,  \* tries a reader makes
    MaxTime,   \* bound: ticks of the run
    MaxEdges   \* bound: edges on the pin

ASSUME ClockAssumption ==
    /\ Period \in Nat \ {0} /\ Tolerance \in Nat /\ MaxSkip \in Nat
    /\ LockRun \in Nat \ {0} /\ Stale \in Nat
    /\ NoPhase \notin Nat
    /\ Word \in Nat \ {0} /\ Attempts \in Nat \ {0}
    /\ MaxTime \in Nat /\ MaxEdges \in Nat

VARIABLES
    now,     \* esp_timer_get_time
    seq,     \* seq_
    pulse,   \* lastPulse_: its words hi and lo
    good,    \* good_; pulses_ > 0 is seq > 0 to the handler
    isr,     \* the handler: step, the time at its edge, run, words to store
    reader,  \* phaseMs: step, its nowMicros, attempt, what it has loaded
    edges,   \* history: the edges onPulse has finished with
    answer   \* what phaseMs last returned

memory == <<seq, pulse, good>>
vars == <<now, memory, isr, reader, edges, answer>>

Words == {"hi", "lo"}
WordsOf(t) == [hi |-> t \div Word, lo |-> t % Word]
TimeOf(w) == w.hi * Word + w.lo

\* The locals of a handler and of a reader that have loaded nothing yet.
IdleIsr == [step |-> "idle", at |-> 0, run |-> 0, todo |-> {}]
Reader(step, at, attempt) ==
    [step |-> step, at |-> at, attempt |-> attempt,
     seq |-> 0, pulse |-> WordsOf(0), good |-> 0, todo |-> {}]

Init ==
    /\ now = 0
    /\ seq = 0 /\ pulse = WordsOf(0) /\ good = 0
    /\ isr = IdleIsr /\ reader = Reader("idle", 0, 0)
    /\ edges = << >> /\ answer = NoPhase

\* The handler is over in microseconds.
Tick ==
    /\ now < MaxTime
    /\ isr.step = "idle"
    /\ now' = now + 1
    /\ UNCHANGED <<memory, isr, reader, edges, answer>>

-----------------------------------------------------------------------------
(* onPulse. *)

Abs(n) == IF n < 0 THEN -n ELSE n

\* Consecutive edges that came when one was due.
Run(at) ==
    IF seq > 0 /\ at > TimeOf(pulse)
       /\ \E skip \in 1 .. MaxSkip : Abs(at - TimeOf(pulse) - Period * skip) <= Tolerance
    THEN good + 1 ELSE 0

OnPulse ==
    /\ isr.step = "idle"
    /\ Len(edges) < MaxEdges
    /\ isr' = [step |-> "odd", at |-> now, run |-> Run(now), todo |-> Words]
    /\ UNCHANGED <<now, memory, reader, edges, answer>>

SeqOdd ==
    /\ isr.step = "odd"
    /\ seq' = seq + 1
    /\ isr' = [isr EXCEPT !.step = "pulse"]
    /\ UNCHANGED <<now, pulse, good, reader, edges, answer>>

StorePulse(w) ==
    /\ isr.step = "pulse" /\ w \in isr.todo
    /\ pulse' = [pulse EXCEPT ![w] = WordsOf(isr.at)[w]]
    /\ isr' = [isr EXCEPT !.todo = @ \ {w},
                          !.step = IF isr.todo = {w} THEN "good" ELSE "pulse"]
    /\ UNCHANGED <<now, seq, good, reader, edges, answer>>

StoreGood ==
    /\ isr.step = "good"
    /\ good' = isr.run
    /\ isr' = [isr EXCEPT !.step = "even"]
    /\ UNCHANGED <<now, seq, pulse, reader, edges, answer>>

SeqEven ==
    /\ isr.step = "even"
    /\ seq' = seq + 1
    /\ isr' = IdleIsr
    /\ edges' = Append(edges, isr.at)
    /\ UNCHANGED <<now, pulse, good, reader, answer>>

-----------------------------------------------------------------------------
(* phaseMs.  The caller reads the time first. *)

Ask ==
    /\ reader.step = "idle"
    /\ reader' = Reader("begin", now, 1)
    /\ UNCHANGED <<now, memory, isr, edges, answer>>

Return(phase) == answer' = phase /\ reader' = Reader("idle", reader.at, 0)

\* Fault: the last try is not the last.
TryForever == reader' = Reader("begin", reader.at, reader.attempt + 1) /\ UNCHANGED answer

\* Another try, or none left.
TryAgain ==
    IF reader.attempt = Attempts THEN Return(NoPhase)
    ELSE reader' = Reader("begin", reader.at, reader.attempt + 1) /\ UNCHANGED answer

\* Fault: a write in progress is not noticed at the start.
NothingWriting == TRUE

NoWriteSeen == seq % 2 = 0

BeginRead ==
    /\ reader.step = "begin"
    /\ IF NoWriteSeen
       THEN /\ reader' = [reader EXCEPT !.step = "pulse", !.seq = seq, !.todo = Words]
            /\ UNCHANGED answer
       ELSE TryAgain
    /\ UNCHANGED <<now, memory, isr, edges>>

LoadPulse(w) ==
    /\ reader.step = "pulse" /\ w \in reader.todo
    /\ reader' = [reader EXCEPT !.pulse[w] = pulse[w], !.todo = @ \ {w},
                                !.step = IF reader.todo = {w} THEN "good" ELSE "pulse"]
    /\ UNCHANGED <<now, memory, isr, edges, answer>>

LoadGood ==
    /\ reader.step = "good"
    /\ reader' = [reader EXCEPT !.good = good, !.step = "end"]
    /\ UNCHANGED <<now, memory, isr, edges, answer>>

\* What phaseMs makes of what it has loaded.
PhaseLoaded ==
    LET since == reader.at - TimeOf(reader.pulse)
    IN  IF reader.seq # 0 /\ reader.good >= LockRun /\ since >= 0 /\ since <= Stale
        THEN since % Period ELSE NoPhase

EndRead ==
    /\ reader.step = "end"
    /\ IF seq = reader.seq
       THEN Return(PhaseLoaded)
       ELSE TryAgain
    /\ UNCHANGED <<now, memory, isr, edges>>

Next ==
    \/ Tick
    \/ OnPulse \/ SeqOdd \/ (\E w \in Words : StorePulse(w)) \/ StoreGood \/ SeqEven
    \/ Ask \/ BeginRead \/ (\E w \in Words : LoadPulse(w)) \/ LoadGood \/ EndRead

Spec == Init /\ [][Next]_vars

-----------------------------------------------------------------------------
(* Properties. *)

Times == [Words -> Nat]

IsrType ==
    [step : {"idle", "odd", "pulse", "good", "even"}, at : Nat, run : Nat,
     todo : SUBSET Words]
ReaderType ==
    [step : {"idle", "begin", "pulse", "good", "end"}, at : Nat,
     attempt : 0 .. Attempts, seq : Nat, pulse : Times, good : Nat,
     todo : SUBSET Words]

\* The shape of the state; above all, phaseMs ends after Attempts tries.
TypeOK ==
    /\ now \in Nat /\ seq \in Nat /\ pulse \in Times /\ good \in Nat
    /\ isr \in IsrType /\ reader \in ReaderType
    /\ edges \in Seq(Nat)
    /\ answer \in Nat \union {NoPhase}

Lock == INSTANCE PulseLock WITH asked <- reader.at

\* Whatever edges and loads interleave, phaseMs answers from one edge alone,
\* and only after LockRun edges in a row came when due: never from the halves
\* of two edges, nor from the time of one and the run of another.
ImplementsPulseLock == Lock!Spec
=============================================================================
