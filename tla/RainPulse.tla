------------------------------ MODULE RainPulse ------------------------------
(***************************************************************************)
(* The path of a rain-gauge pulse through the firmware:                     *)
(*                                                                          *)
(*   GPIO interrupt  --os_send_event-->  isrEventTask  --> g_rainPulse      *)
(*   g_rainPulse --> measure250ms_task --g_250ms_queue_id--> DUALPORT_TASK  *)
(*   DUALPORT_TASK --> g_rainfall.current --SecProcess--> the accumulators  *)
(*                                                                          *)
(* rain.c, task_event.c, task_measure.c and the rain lines of task_aws.c    *)
(* and schedule.c.  One interrupt handler and three tasks share a message   *)
(* queue of events, a semaphore-protected 16 bit counter, and a one-slot    *)
(* message queue of readings.  The path counts tips of the gauge up to      *)
(* DUALPORT_TASK and tenths of a millimetre from there on: the conversion   *)
(* (tips * 0.5 or 1.0 as a float, then MAKE_X10) is exact.                  *)
(***************************************************************************)
EXTENDS Integers, Sequences, FiniteSets

CONSTANTS
    EventQueueLen,   \* osMessageQueueNew(10, ...)           task_event.c:94
    PulseMod,        \* g_rainPulse is a uint16_t: 2^16      rain.c:18
    CurrentMod,      \* g_rainfall.current is a uint8_t: 2^8 aws_data.h:337
    TipUnit,         \* tenths of a millimetre per tip       rain.c:162-182
    TickMod,         \* the kernel tick is a uint32_t: 2^32
    Debounce,        \* 1000 ms between two accepted edges   rain.c:64
    MaxPulses,       \* bound: edges accepted in one behaviour, few enough that
                     \* a reading of all of them fits get_rain_mm's uint16_t
    MaxFaults        \* bound: reset requests and power losses

ASSUME RainPulseAssumption ==
    /\ EventQueueLen \in Nat \ {0}
    /\ MaxPulses \in Nat /\ MaxFaults \in Nat
    /\ PulseMod \in Nat /\ 10 * MaxPulses < PulseMod
    /\ CurrentMod \in Nat \ {0} /\ TipUnit \in {5, 10}
    /\ TickMod \in Nat /\ Debounce \in Nat \ {0} /\ Debounce < TickMod

VARIABLES
    tick,         \* OS_GET_TICK()
    lastPulse,    \* g_last_pulse_time
    evq,          \* g_event_msg_q_id
    evPc,         \* isrEventTask: what it holds between two steps
    g_rainPulse,
    mPc,          \* measure250ms_task: the call it makes next
    mPeek,        \* read_sensor_rain's local "rain", result of peek_rain()
    mVal,         \* g_reading_250.data[eA6_RAINFALL_DOT5_1MM]
    q250,         \* g_250ms_queue_id
    awsUp,        \* DUALPORT_TASK is past its osDelay(2000)
    current,      \* g_rainfall.current
    secPending,   \* Date_Time.Sec differs from time_old.Sec
    \* History, not in the program:
    gap,          \* true time since the last accepted edge, up to Debounce
    accepted,     \* edges that passed the debounce test, in tips
    counted,      \* what SecProcess moved into the accumulators, in 0.1 mm
    lost,         \* refused, timed out or erased by a reset, in 0.1 mm
    wrapped,      \* what the uint8_t of g_rainfall.current cut off, in 0.1 mm
    faults

volatile == <<tick, lastPulse, evq, evPc, g_rainPulse, mPc, mPeek, mVal,
              q250, awsUp, current, secPending>>
history == <<gap, accepted, counted, lost, wrapped, faults>>
vars == <<volatile, history>>

Events == {"rain", "other", "reset"}

\* How many rain events an event queue holds.
RainIn(q) == Cardinality({i \in DOMAIN q : q[i] = "rain"})

\* The reading waiting in g_250ms_queue_id: the queue has one slot.
Waiting(q) == IF q = <<>> THEN 0 ELSE q[1]

InHand(pc) == IF pc = "rain" THEN 1 ELSE 0

\* MAKE_X10(tips * 0.5) or MAKE_X10(tips * 1.0): tips in tenths of a mm.
Tenths(tips) == TipUnit * tips

\* Tips between the interrupt and DUALPORT_TASK.
OnTheWay == RainIn(evq) + InHand(evPc) + g_rainPulse + mVal + Waiting(q250)

\* Rain between the interrupt and the accumulators, in 0.1 mm.
InFlight == Tenths(OnTheWay) + current

Init == /\ tick = 0 /\ lastPulse = 0
        /\ evq = <<>> /\ evPc = "idle"
        /\ g_rainPulse = 0
        /\ mPc = "peek" /\ mPeek = 0 /\ mVal = 0
        /\ q250 = <<>>
        /\ awsUp = FALSE /\ current = 0 /\ secPending = FALSE
        /\ gap = 0 /\ accepted = 0 /\ counted = 0 /\ lost = 0 /\ wrapped = 0
        /\ faults = 0

-----------------------------------------------------------------------------
(* Time. *)

Tick == /\ tick' = (tick + 1) % TickMod
        /\ gap' = IF gap < Debounce THEN gap + 1 ELSE gap
        /\ UNCHANGED <<lastPulse, evq, evPc, g_rainPulse, mPc, mPeek, mVal,
                       q250, awsUp, current, secPending,
                       accepted, counted, lost, wrapped, faults>>

\* systemTask reads the RTC into Date_Time; its second has moved on.
RtcSecond == /\ ~secPending
             /\ secPending' = TRUE
             /\ UNCHANGED <<tick, lastPulse, evq, evPc, g_rainPulse, mPc,
                            mPeek, mVal, q250, awsUp, current, history>>

-----------------------------------------------------------------------------
(* Interrupts, and the event queue. *)

\* Slip: a put that does not ask for room.
FitsAlways == TRUE

\* os_send_event(&event, 0): a full queue refuses the event.
Fits == Len(evq) < EventQueueLen

\* Slip: the distance of the two readings instead of their unsigned difference.
ElapsedAbs == IF tick < lastPulse THEN lastPulse - tick ELSE tick - lastPulse

\* current_time - g_last_pulse_time, in uint32_t arithmetic.
Elapsed == (tick - lastPulse) % TickMod

\* rain_reed_callback / rain_hall_callback.  The result of os_send_event is
\* not looked at: the tip is lost when the queue is full, and the debounce
\* interval starts again either way.
RainEdge ==
    /\ accepted < MaxPulses
    /\ Elapsed >= Debounce
    /\ evq' = IF Fits THEN Append(evq, "rain") ELSE evq
    /\ lost' = IF Fits THEN lost ELSE lost + Tenths(1)
    /\ lastPulse' = tick
    /\ gap' = 0
    /\ accepted' = accepted + 1
    /\ UNCHANGED <<tick, evPc, g_rainPulse, mPc, mPeek, mVal, q250, awsUp,
                   current, secPending, counted, wrapped, faults>>

\* The user button and the USB connect/disconnect callbacks.
OtherEvent ==
    /\ Fits
    /\ evq' = Append(evq, "other")
    /\ UNCHANGED <<tick, lastPulse, evPc, g_rainPulse, mPc, mPeek, mVal,
                   q250, awsUp, current, secPending, history>>

\* rtu_reset_callback: the request is dropped when the queue is full.
ResetEvent ==
    /\ faults < MaxFaults
    /\ faults' = faults + 1
    /\ evq' = IF Fits THEN Append(evq, "reset") ELSE evq
    /\ UNCHANGED <<tick, lastPulse, evPc, g_rainPulse, mPc, mPeek, mVal,
                   q250, awsUp, current, secPending,
                   gap, accepted, counted, lost, wrapped>>

-----------------------------------------------------------------------------
(* isrEventTask. *)

\* The event is out of the queue; task_printf runs before increase_rain, so
\* the task can be preempted with the tip in its hand.
EventGet ==
    /\ evPc = "idle" /\ evq # <<>>
    /\ evPc' = IF Head(evq) = "other" THEN "idle" ELSE Head(evq)
    /\ evq' = Tail(evq)
    /\ UNCHANGED <<tick, lastPulse, g_rainPulse, mPc, mPeek, mVal, q250,
                   awsUp, current, secPending, history>>

IncreaseRain ==
    /\ evPc = "rain"
    /\ g_rainPulse' = (g_rainPulse + 1) % PulseMod
    /\ evPc' = "idle"
    /\ UNCHANGED <<tick, lastPulse, evq, mPc, mPeek, mVal, q250, awsUp,
                   current, secPending, history>>

-----------------------------------------------------------------------------
(* measure250ms_task. *)

\* read_sensor_rain: peek_rain(), and get_rain() only of a nonzero count.
PeekRain ==
    /\ mPc = "peek"
    /\ mPeek' = g_rainPulse
    /\ mVal' = 0
    /\ mPc' = IF g_rainPulse = 0 THEN "put" ELSE "get"
    /\ UNCHANGED <<tick, lastPulse, evq, evPc, g_rainPulse, q250, awsUp,
                   current, secPending, history>>

\* Slip: > for >=.
TakenStrict(cnt) == IF cnt > g_rainPulse THEN cnt ELSE 0

\* get_rain(cnt) returns cnt when it covers the whole counter, else nothing:
\* a tip that arrived since the peek makes the call return 0.
Taken(cnt) == IF cnt >= g_rainPulse THEN cnt ELSE 0

\* Slip: the counter is cleared whatever was taken.
RemainingCleared(taken) == 0

\* g_rainPulse -= cnt, in uint16_t arithmetic.
Remaining(taken) == (g_rainPulse - taken) % PulseMod

\* Slip: drain in a loop, with the count of the first peek.
GetRainDrain ==
    /\ mPc = "get"
    /\ mVal' = mVal + mPeek
    /\ g_rainPulse' = Remaining(mPeek)
    /\ mPc' = IF g_rainPulse > mPeek THEN "get" ELSE "put"
    /\ UNCHANGED <<tick, lastPulse, evq, evPc, mPeek, q250, awsUp, current,
                   secPending, history>>

GetRain ==
    /\ mPc = "get"
    /\ g_rainPulse' = Remaining(Taken(mPeek))
    /\ mVal' = Taken(mPeek)
    /\ mPc' = "put"
    /\ UNCHANGED <<tick, lastPulse, evq, evPc, mPeek, q250, awsUp, current,
                   secPending, history>>

\* send_measurement: the reading is copied into the queue's one slot.
SendMeasurement ==
    /\ mPc = "put" /\ q250 = <<>>
    /\ q250' = <<mVal>>
    /\ mVal' = 0
    /\ mPc' = "peek"
    /\ UNCHANGED <<tick, lastPulse, evq, evPc, g_rainPulse, mPeek, awsUp,
                   current, secPending, history>>

\* The slot stayed occupied for kMesaureTimeOutMs: the reading is dropped and
\* the next cycle overwrites it.
SendTimeout ==
    /\ mPc = "put" /\ q250 # <<>>
    /\ lost' = lost + Tenths(mVal)
    /\ mVal' = 0
    /\ mPc' = "peek"
    /\ UNCHANGED <<tick, lastPulse, evq, evPc, g_rainPulse, mPeek, q250,
                   awsUp, current, secPending, gap, accepted, counted,
                   wrapped, faults>>

-----------------------------------------------------------------------------
(* DUALPORT_TASK. *)

AwsStart ==
    /\ ~awsUp
    /\ awsUp' = TRUE
    /\ secPending' = FALSE            \* time_old = Date_Time
    /\ UNCHANGED <<tick, lastPulse, evq, evPc, g_rainPulse, mPc, mPeek, mVal,
                   q250, current, history>>

\* g_rainfall.current after += get_rain_mm(), and the part that does not fit.
NewCurrent == (current + Tenths(Waiting(q250))) % CurrentMod
Carry == (current + Tenths(Waiting(q250))) - NewCurrent

\* Slip: SecProcess forgets g_rainfall.current = 0.
AwsScanKeeps ==
    /\ awsUp /\ q250 # <<>>
    /\ q250' = <<>>
    /\ wrapped' = wrapped + Carry
    /\ current' = NewCurrent
    /\ counted' = IF secPending THEN counted + NewCurrent ELSE counted
    /\ secPending' = FALSE
    /\ UNCHANGED <<tick, lastPulse, evq, evPc, g_rainPulse, mPc, mPeek, mVal,
                   awsUp, gap, accepted, lost, faults>>

\* One turn of the loop: take the 250 ms reading, add its rain to
\* g_rainfall.current, and run SecProcess if the second has changed.
AwsScan ==
    /\ awsUp /\ q250 # <<>>
    /\ q250' = <<>>
    /\ wrapped' = wrapped + Carry
    /\ IF secPending
       THEN counted' = counted + NewCurrent /\ current' = 0
       ELSE current' = NewCurrent /\ UNCHANGED counted
    /\ secPending' = FALSE
    /\ UNCHANGED <<tick, lastPulse, evq, evPc, g_rainPulse, mPc, mPeek, mVal,
                   awsUp, gap, accepted, lost, faults>>

-----------------------------------------------------------------------------
(* Resets: everything above is RAM. *)

Restart == /\ tick' = 0 /\ lastPulse' = 0
           /\ evq' = <<>> /\ evPc' = "idle"
           /\ g_rainPulse' = 0
           /\ mPc' = "peek" /\ mPeek' = 0 /\ mVal' = 0
           /\ q250' = <<>>
           /\ awsUp' = FALSE /\ current' = 0 /\ secPending' = FALSE
           /\ lost' = lost + InFlight
           /\ UNCHANGED <<gap, accepted, counted, wrapped>>

\* reset_system() called by isrEventTask for eSYSTEM_RESET.
ResetSystem == evPc = "reset" /\ Restart /\ UNCHANGED faults

\* A watchdog reset, or the supply fails.
PowerLoss == faults < MaxFaults /\ Restart /\ faults' = faults + 1

-----------------------------------------------------------------------------
Interrupts == RainEdge \/ OtherEvent \/ ResetEvent
EventTask == EventGet \/ IncreaseRain
MeasureTask == PeekRain \/ GetRain \/ SendMeasurement \/ SendTimeout
AwsTask == AwsStart \/ AwsScan

Next == \/ Tick \/ RtcSecond \/ Interrupts
        \/ EventTask \/ MeasureTask \/ AwsTask
        \/ ResetSystem \/ PowerLoss

\* Every task is at a real-time priority and blocks only where its guard
\* does; the clock runs.  Nothing makes it rain or fail.
Fairness == /\ WF_vars(RtcSecond)
            /\ WF_vars(EventTask) /\ WF_vars(ResetSystem)
            /\ WF_vars(MeasureTask) /\ WF_vars(AwsTask)

Spec == Init /\ [][Next]_vars /\ Fairness

-----------------------------------------------------------------------------
(* The state the code can be in: queues within the lengths they were        *)
(* created with, counters within their width.                               *)
TypeOK ==
    /\ tick \in 0 .. TickMod - 1 /\ lastPulse \in 0 .. TickMod - 1
    /\ evq \in Seq(Events) /\ Len(evq) <= EventQueueLen
    /\ evPc \in {"idle", "rain", "reset"}
    /\ g_rainPulse \in 0 .. PulseMod - 1
    /\ mPc \in {"peek", "get", "put"}
    /\ mPeek \in Nat /\ mVal \in Nat
    /\ q250 \in Seq(Nat) /\ Len(q250) <= 1
    /\ awsUp \in BOOLEAN /\ secPending \in BOOLEAN
    /\ current \in 0 .. CurrentMod - 1
    /\ gap \in 0 .. Debounce
    /\ accepted \in 0 .. MaxPulses
    /\ counted \in Nat /\ lost \in Nat /\ wrapped \in Nat
    /\ faults \in 0 .. MaxFaults

(* Every tip the interrupt accepted is in exactly one place: still on its   *)
(* way, in the accumulators, or lost in a way the model names.  No hand-over *)
(* between the handler and the three tasks duplicates or forgets one, and    *)
(* what the 8 bit g_rainfall.current cuts off is all that goes missing.      *)
Conservation == Tenths(accepted) = counted + lost + wrapped + InFlight

(* get_rain() subtracts an earlier reading of the counter from the counter: *)
(* between peek_rain() and get_rain() the counter only grows, so the        *)
(* unsigned subtraction never wraps.                                        *)
NoUnderflow == mPc = "get" => mPeek <= g_rainPulse

(* Two accepted edges are at least Debounce ticks of real time apart, also  *)
(* when the tick counter wraps and across a reset.                          *)
Debounced == [][accepted' # accepted => gap >= Debounce]_vars

(* A tip the interrupt accepted does not stay on its way for ever: it ends  *)
(* in the accumulators or is lost.  get_rain() may return 0 and leave tips  *)
(* for the next cycle, but not in every cycle.                              *)
EventuallyCounted ==
    \A n \in 1 .. MaxPulses :
        (accepted >= n) ~> (counted + lost + wrapped >= Tenths(n))

-----------------------------------------------------------------------------
(* The rain path implements the ledger: rain is accepted, and later counted  *)
(* or lost at most once.                                                     *)
Ledger == INSTANCE RainLedger
    WITH accepted <- Tenths(accepted), lost <- lost + wrapped
LedgerSpec == Ledger!Spec
=============================================================================
