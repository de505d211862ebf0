--------------------------- MODULE RainPulse_proofs ---------------------------
(***************************************************************************)
(* Proofs about RainPulse for every queue length, counter width, tick width *)
(* and debounce interval that RainPulseAssumption allows.                   *)
(***************************************************************************)
EXTENDS RainPulse, FiniteSetTheorems, TLAPS

-----------------------------------------------------------------------------
(* How many rain events a queue holds. *)

(* The rain events of a queue can be counted. *)
LEMMA RainInType ==
    ASSUME NEW q \in Seq(Events)
    PROVE  /\ IsFiniteSet({i \in DOMAIN q : q[i] = "rain"})
           /\ RainIn(q) \in Nat
<1>1. IsFiniteSet(1 .. Len(q))
  BY FS_Interval
<1>2. {i \in DOMAIN q : q[i] = "rain"} \subseteq 1 .. Len(q)
  OBVIOUS
<1>3. IsFiniteSet({i \in DOMAIN q : q[i] = "rain"})
  BY <1>1, <1>2, FS_Subset
<1> QED BY <1>3, FS_CardinalityType DEF RainIn

(* An empty queue holds none. *)
LEMMA RainInEmpty == RainIn(<<>>) = 0
<1>1. {i \in DOMAIN <<>> : <<>>[i] = "rain"} = {}
  OBVIOUS
<1> QED BY <1>1, FS_EmptySet DEF RainIn

(* Putting an event adds one exactly when it is a rain event. *)
LEMMA RainInAppend ==
    ASSUME NEW q \in Seq(Events), NEW e \in Events
    PROVE  RainIn(Append(q, e)) = RainIn(q) + (IF e = "rain" THEN 1 ELSE 0)
<1> DEFINE S == {i \in DOMAIN q : q[i] = "rain"}
           T == {i \in DOMAIN Append(q, e) : Append(q, e)[i] = "rain"}
<1>c. RainIn(q) = Cardinality(S) /\ RainIn(Append(q, e)) = Cardinality(T)
  BY DEF RainIn
<1>1. IsFiniteSet(S) /\ Cardinality(S) \in Nat
  BY RainInType, <1>c
<1>2. Len(q) + 1 \notin S
  OBVIOUS
<1>3. CASE e = "rain"
  <2>1. T = S \cup {Len(q) + 1}
    BY <1>3
  <2> HIDE DEF S, T
  <2>2. Cardinality(T) = Cardinality(S) + 1
    BY <1>1, <1>2, <2>1, FS_AddElement
  <2> QED BY <1>c, <1>1, <1>3, <2>2
<1>4. CASE e # "rain"
  <2>1. T = S
    BY <1>4
  <2> HIDE DEF S, T
  <2> QED BY <1>c, <1>1, <1>4, <2>1
<1> QED BY <1>3, <1>4

(* Taking the head removes one exactly when it is a rain event. *)
LEMMA RainInTail ==
    ASSUME NEW q \in Seq(Events), q # <<>>
    PROVE  RainIn(q) = RainIn(Tail(q)) + (IF Head(q) = "rain" THEN 1 ELSE 0)
<1> DEFINE S == {i \in DOMAIN q : q[i] = "rain"}
           T == {i \in DOMAIN Tail(q) : Tail(q)[i] = "rain"}
           R == S \ {1}
           f == [i \in T |-> i + 1]
<1>c. RainIn(q) = Cardinality(S) /\ RainIn(Tail(q)) = Cardinality(T)
  BY DEF RainIn
<1>1. Tail(q) \in Seq(Events) /\ Len(q) \in Nat \ {0} /\ Len(Tail(q)) = Len(q) - 1
  OBVIOUS
<1>2. IsFiniteSet(S) /\ IsFiniteSet(T) /\ Cardinality(S) \in Nat
        /\ Cardinality(T) \in Nat
  BY <1>1, <1>c, RainInType
<1>3. f \in [T -> R]
  BY <1>1
<1>4. \A a, b \in T : f[a] = f[b] => a = b
  BY <1>1
<1>5. \A r \in R : \E t \in T : f[t] = r
  <2> SUFFICES ASSUME NEW r \in R
               PROVE  \E t \in T : f[t] = r
    OBVIOUS
  <2>1. r - 1 \in T
    BY <1>1
  <2> QED BY <2>1, <1>1
<1>6. f \in Bijection(T, R)
  BY <1>3, <1>4, <1>5 DEF Bijection, Injection, IsInjective, Surjection
<1>7. Cardinality(R) = Cardinality(T)
  BY <1>2, <1>6, FS_Bijection DEF ExistsBijection
<1>8. Cardinality(R) = IF 1 \in S THEN Cardinality(S) - 1 ELSE Cardinality(S)
  BY <1>2, FS_RemoveElement
<1>9. 1 \in S <=> Head(q) = "rain"
  BY <1>1
<1> HIDE DEF S, T, R
<1> QED BY <1>c, <1>2, <1>7, <1>8, <1>9

-----------------------------------------------------------------------------
(* Unsigned arithmetic. *)

(* A number below the modulus is its own residue. *)
LEMMA ModSmall ==
    ASSUME NEW m \in Nat, NEW x \in 0 .. m - 1
    PROVE  x % m = x
OBVIOUS

(* A residue is below the modulus. *)
LEMMA ModRange ==
    ASSUME NEW m \in Nat \ {0}, NEW x \in Int
    PROVE  x % m \in 0 .. m - 1
OBVIOUS

(* Reducing a number never makes it larger. *)
LEMMA ModLe ==
    ASSUME NEW m \in Nat \ {0}, NEW x \in Nat
    PROVE  x % m <= x
<1>1. CASE x < m
  BY <1>1, ModSmall
<1>2. CASE x >= m
  BY <1>2, ModRange
<1> QED BY <1>1, <1>2

(* A small negative number wraps to the top. *)
LEMMA ModNegative ==
    ASSUME NEW m \in Nat \ {0}, NEW x \in Int, -m <= x, x < 0
    PROVE  x % m = x + m
OBVIOUS

-----------------------------------------------------------------------------
(* The inductive invariant. *)

\* measure250ms_task holds tips only between get_rain() and the put.
NothingHeld == mPc # "put" => mVal = 0

IInv == TypeOK /\ NoUnderflow /\ NothingHeld /\ Conservation

(* The conversion of tips to tenths of a millimetre is linear. *)
LEMMA Units ==
    /\ \A a \in Nat : Tenths(a) \in Nat
    /\ \A a, b \in Nat : Tenths(a + b) = Tenths(a) + Tenths(b)
    /\ \A a, b \in Nat : Tenths(a) <= Tenths(b) => a <= b
    /\ Tenths(0) = 0 /\ Tenths(1) \in Nat \ {0}
<1>1. CASE TipUnit = 5
  BY <1>1 DEF Tenths
<1>2. CASE TipUnit = 10
  BY <1>2 DEF Tenths
<1> QED BY <1>1, <1>2, RainPulseAssumption

(* A part of the tips on the way is no more rain than all of them. *)
LEMMA UnitsMonotonic ==
    ASSUME NEW part \in Nat, NEW whole \in Nat, part <= whole
    PROVE  Tenths(part) \in Nat /\ Tenths(part) <= Tenths(whole)
<1>1. CASE TipUnit = 5
  BY <1>1 DEF Tenths
<1>2. CASE TipUnit = 10
  BY <1>2 DEF Tenths
<1> QED BY <1>1, <1>2, RainPulseAssumption

(* The state of an invariant state as numbers, for the arithmetic leaves. *)
LEMMA Balance ==
    ASSUME IInv
    PROVE  /\ RainIn(evq) \in Nat /\ InHand(evPc) \in Nat /\ Waiting(q250) \in Nat
           /\ g_rainPulse \in Nat /\ mVal \in Nat /\ current \in Nat
           /\ accepted \in Nat /\ counted \in Nat /\ lost \in Nat /\ wrapped \in Nat
           /\ OnTheWay = RainIn(evq) + InHand(evPc) + g_rainPulse + mVal
                           + Waiting(q250)
           /\ OnTheWay \in Nat /\ Tenths(OnTheWay) \in Nat
           /\ Tenths(accepted)
                = counted + lost + wrapped + (Tenths(OnTheWay) + current)
<1>1. RainIn(evq) \in Nat
  BY RainInType DEF IInv, TypeOK
<1>2. InHand(evPc) \in Nat
  BY DEF InHand
<1>3. Waiting(q250) \in Nat
  BY DEF IInv, TypeOK, Waiting
<1>4. OnTheWay = RainIn(evq) + InHand(evPc) + g_rainPulse + mVal + Waiting(q250)
  BY DEF OnTheWay
<1>5. /\ g_rainPulse \in Nat /\ mVal \in Nat /\ current \in Nat
      /\ accepted \in Nat /\ counted \in Nat /\ lost \in Nat /\ wrapped \in Nat
  BY RainPulseAssumption DEF IInv, TypeOK
<1>6. OnTheWay \in Nat
  BY <1>1, <1>2, <1>3, <1>4, <1>5
<1>7. Tenths(OnTheWay) \in Nat
  BY <1>6, Units
<1>8. Tenths(accepted)
        = counted + lost + wrapped + (Tenths(OnTheWay) + current)
  BY DEF IInv, Conservation, InFlight
<1> QED BY <1>1, <1>2, <1>3, <1>4, <1>5, <1>6, <1>7, <1>8

(* At most MaxPulses tips are on their way, so no 16 bit counter wraps. *)
LEMMA FewInFlight ==
    ASSUME IInv
    PROVE  g_rainPulse + InHand(evPc) <= MaxPulses
<1>1. accepted <= MaxPulses /\ MaxPulses \in Nat
  BY RainPulseAssumption DEF IInv, TypeOK
<1>2. Tenths(OnTheWay) <= Tenths(accepted)
  BY Balance
<1>3. OnTheWay <= accepted
  BY <1>2, Units, Balance
<1> QED BY <1>1, <1>3, Balance

(* Conservation follows for a step from what it does to the tips. *)
LEMMA KeepsConservation ==
    ASSUME IInv,
           OnTheWay' = OnTheWay, accepted' = accepted, counted' = counted,
           lost' = lost, wrapped' = wrapped, current' = current
    PROVE  Conservation'
BY DEF IInv, Conservation, InFlight

(* The counter can take one more tip than it holds. *)
LEMMA NoWrap ==
    ASSUME IInv, evPc = "rain"
    PROVE  (g_rainPulse + 1) % PulseMod = g_rainPulse + 1
<1>1. InHand(evPc) = 1
  BY DEF InHand
<1>2. g_rainPulse \in Nat /\ PulseMod \in Nat /\ g_rainPulse + 1 < PulseMod
  BY <1>1, FewInFlight, Balance, RainPulseAssumption DEF IInv, TypeOK
<1> QED BY <1>2, ModSmall

LEMMA InitIInv == Init => IInv
<1> SUFFICES ASSUME Init PROVE IInv
  OBVIOUS
<1>1. TypeOK
  <2>1. evq \in Seq(Events) /\ Len(evq) = 0 /\ q250 \in Seq(Nat) /\ Len(q250) = 0
    BY DEF Init
  <2>2. /\ 0 \in 0 .. TickMod - 1 /\ 0 \in 0 .. PulseMod - 1 /\ 0 \in 0 .. Debounce
        /\ 0 \in 0 .. MaxPulses /\ 0 \in 0 .. MaxFaults /\ 0 <= EventQueueLen
        /\ 0 \in 0 .. CurrentMod - 1
    BY RainPulseAssumption
  <2>3. awsUp \in BOOLEAN /\ secPending \in BOOLEAN
    BY DEF Init
  <2>4. /\ evPc \in {"idle", "rain", "reset"} /\ mPc \in {"peek", "get", "put"}
    BY DEF Init
  <2> QED BY <2>1, <2>2, <2>3, <2>4 DEF Init, TypeOK
<1>2. NoUnderflow /\ NothingHeld
  BY DEF Init, NoUnderflow, NothingHeld
<1>3. RainIn(evq) = 0 /\ InHand(evPc) = 0 /\ Waiting(q250) = 0
  BY RainInEmpty DEF Init, InHand, Waiting
<1>4. Conservation
  <2>1. OnTheWay = 0
    BY <1>3 DEF Init, OnTheWay
  <2> QED BY <2>1, Units DEF Init, Conservation, InFlight
<1> QED BY <1>1, <1>2, <1>4 DEF IInv

(* The interrupt handlers. *)
LEMMA InterruptSteps ==
    ASSUME IInv, Interrupts
    PROVE  IInv'
<1> USE RainPulseAssumption
<1>t. TypeOK /\ NoUnderflow /\ NothingHeld
  BY DEF IInv
<1>q. ASSUME NEW e \in Events, Fits
      PROVE  /\ Append(evq, e) \in Seq(Events)
             /\ Len(Append(evq, e)) <= EventQueueLen
             /\ RainIn(Append(evq, e)) = RainIn(evq) + (IF e = "rain" THEN 1 ELSE 0)
  BY <1>t, <1>q, RainInAppend DEF TypeOK, Fits
<1>1. CASE RainEdge
  <2>0. /\ accepted' = accepted + 1 /\ counted' = counted /\ wrapped' = wrapped
        /\ InHand(evPc') = InHand(evPc) /\ g_rainPulse' = g_rainPulse
        /\ mVal' = mVal /\ Waiting(q250') = Waiting(q250) /\ current' = current
    BY <1>1 DEF RainEdge
  <2>n. accepted \in Nat /\ OnTheWay \in Nat
    BY Balance
  <2>u. /\ Tenths(accepted') = Tenths(accepted) + Tenths(1)
        /\ Tenths(OnTheWay + 1) = Tenths(OnTheWay) + Tenths(1)
        /\ Tenths(1) \in Nat
    BY <2>0, <2>n, Units
  <2>1. /\ evq' \in Seq(Events) /\ Len(evq') <= EventQueueLen
        /\ lost' \in Nat /\ Conservation'
    <3>1. CASE Fits
      <4>1. lost' = lost
        BY <1>1, <3>1 DEF RainEdge
      <4>2. "rain" \in Events /\ evq' = Append(evq, "rain")
        BY <1>1, <3>1 DEF RainEdge, Events
      <4>3. /\ evq' \in Seq(Events) /\ Len(evq') <= EventQueueLen
            /\ RainIn(evq') = RainIn(evq) + 1
        BY <1>q, <3>1, <4>2
      <4>4. OnTheWay' = OnTheWay + 1
        <5>1. RainIn(evq') = RainIn(evq) + 1
          BY <4>3
        <5> QED BY <2>0, <5>1, Balance DEF OnTheWay
      <4>5. Tenths(OnTheWay') = Tenths(OnTheWay) + Tenths(1)
        BY <2>u, <4>4
      <4>6. Conservation'
        BY <2>0, <2>u, <4>1, <4>5, Balance DEF Conservation, InFlight
      <4> QED BY <4>1, <4>3, <4>6, Balance
    <3>2. CASE ~Fits
      <4>1. lost' = lost + Tenths(1) /\ evq' = evq
        BY <1>1, <3>2 DEF RainEdge
      <4>2. OnTheWay' = OnTheWay
        BY <2>0, <4>1 DEF OnTheWay
      <4>3. Conservation'
        BY <2>0, <2>u, <4>1, <4>2, Balance DEF Conservation, InFlight
      <4> QED BY <1>t, <2>u, <4>1, <4>3 DEF TypeOK
    <3> QED BY <3>1, <3>2
  <2>2. TypeOK'
    BY <1>1, <1>t, <2>1 DEF RainEdge, TypeOK
  <2>3. NoUnderflow' /\ NothingHeld'
    BY <1>1, <1>t DEF RainEdge, NoUnderflow, NothingHeld
  <2> QED BY <2>1, <2>2, <2>3 DEF IInv
<1>2. CASE OtherEvent \/ ResetEvent
  <2>1. /\ evq' \in Seq(Events) /\ Len(evq') <= EventQueueLen
        /\ RainIn(evq') = RainIn(evq)
    <3>1. \/ evq' = evq
          \/ \E e \in {"other", "reset"} : Fits /\ evq' = Append(evq, e)
      BY <1>2 DEF OtherEvent, ResetEvent
    <3>2. ASSUME NEW e \in {"other", "reset"}, Fits, evq' = Append(evq, e)
          PROVE  /\ evq' \in Seq(Events) /\ Len(evq') <= EventQueueLen
                 /\ RainIn(evq') = RainIn(evq)
      <4>1. e \in Events /\ e # "rain"
        BY DEF Events
      <4> QED BY <1>q, <3>2, <4>1, Balance
    <3> QED BY <1>t, <3>1, <3>2 DEF TypeOK
  <2>2. TypeOK'
    <3>1. CASE OtherEvent
      BY <1>t, <2>1, <3>1 DEF OtherEvent, history, TypeOK
    <3>2. CASE ResetEvent
      BY <1>t, <2>1, <3>2 DEF ResetEvent, TypeOK
    <3> QED BY <1>2, <3>1, <3>2
  <2>3. NoUnderflow' /\ NothingHeld'
    BY <1>2, <1>t DEF OtherEvent, ResetEvent, history, NoUnderflow, NothingHeld
  <2>4. Conservation'
    <3>1. OnTheWay' = OnTheWay
      BY <1>2, <2>1 DEF OtherEvent, ResetEvent, OnTheWay
    <3> QED BY <1>2, <3>1, KeepsConservation DEF OtherEvent, ResetEvent, history
  <2> QED BY <2>2, <2>3, <2>4 DEF IInv
<1> QED BY <1>1, <1>2 DEF Interrupts

(* isrEventTask. *)
LEMMA EventTaskSteps ==
    ASSUME IInv, EventTask
    PROVE  IInv'
<1> USE RainPulseAssumption
<1>t. TypeOK /\ NoUnderflow /\ NothingHeld
  BY DEF IInv
<1>1. CASE EventGet
  <2>1. /\ evq' \in Seq(Events) /\ Len(evq') <= EventQueueLen
        /\ evPc' \in {"idle", "rain", "reset"}
    BY <1>1, <1>t DEF EventGet, TypeOK, Events
  <2>2. /\ RainIn(evq') \in Nat
        /\ RainIn(evq) = RainIn(evq') + InHand(evPc')
        /\ InHand(evPc) = 0 /\ InHand(evPc') \in Nat
    BY <1>1, <1>t, <2>1, RainInTail, RainInType, Balance DEF EventGet, TypeOK, InHand
  <2>3. TypeOK'
    BY <1>1, <1>t, <2>1 DEF EventGet, history, TypeOK
  <2>4. NoUnderflow' /\ NothingHeld'
    BY <1>1, <1>t DEF EventGet, history, NoUnderflow, NothingHeld
  <2>5. Conservation'
    <3>1. OnTheWay' = OnTheWay
      BY <1>1, <2>2, Balance DEF EventGet, OnTheWay
    <3> QED BY <1>1, <3>1, KeepsConservation DEF EventGet, history
  <2> QED BY <2>3, <2>4, <2>5 DEF IInv
<1>2. CASE IncreaseRain
  <2>1. /\ g_rainPulse' = g_rainPulse + 1 /\ g_rainPulse' \in 0 .. PulseMod - 1
        /\ InHand(evPc) = 1 /\ InHand(evPc') = 0
    BY <1>2, <1>t, NoWrap, ModRange DEF IncreaseRain, TypeOK, InHand
  <2>2. TypeOK'
    BY <1>2, <1>t, <2>1 DEF IncreaseRain, history, TypeOK
  <2>3. NoUnderflow' /\ NothingHeld'
    BY <1>2, <1>t, <2>1 DEF IncreaseRain, history, NoUnderflow, NothingHeld, TypeOK
  <2>4. Conservation'
    <3>1. OnTheWay' = OnTheWay
      BY <1>2, <2>1, Balance DEF IncreaseRain, OnTheWay
    <3> QED BY <1>2, <3>1, KeepsConservation DEF IncreaseRain, history
  <2> QED BY <2>2, <2>3, <2>4 DEF IInv
<1> QED BY <1>1, <1>2 DEF EventTask

(* get_rain() takes the whole counter or nothing. *)
LEMMA GetRainTakes ==
    ASSUME IInv, mPc = "get"
    PROVE  /\ Taken(mPeek) \in 0 .. g_rainPulse
           /\ Remaining(Taken(mPeek)) = g_rainPulse - Taken(mPeek)
<1>1. Taken(mPeek) \in 0 .. g_rainPulse /\ g_rainPulse \in 0 .. PulseMod - 1
  BY DEF IInv, TypeOK, NoUnderflow, Taken
<1> QED BY <1>1, ModSmall, RainPulseAssumption DEF Remaining

(* measure250ms_task. *)
LEMMA MeasureSteps ==
    ASSUME IInv, MeasureTask
    PROVE  IInv'
<1> USE RainPulseAssumption
<1>t. TypeOK /\ NoUnderflow /\ NothingHeld
  BY DEF IInv
<1>1. CASE PeekRain
  <2>1. TypeOK'
    BY <1>1, <1>t DEF PeekRain, history, TypeOK
  <2>2. NoUnderflow' /\ NothingHeld'
    BY <1>1, <1>t DEF PeekRain, NoUnderflow, NothingHeld, TypeOK
  <2>3. mVal = 0
    BY <1>1, <1>t DEF PeekRain, NothingHeld
  <2>4. Conservation'
    <3>1. OnTheWay' = OnTheWay
      BY <1>1, <2>3, Balance DEF PeekRain, OnTheWay
    <3> QED BY <1>1, <3>1, KeepsConservation DEF PeekRain, history
  <2> QED BY <2>1, <2>2, <2>4 DEF IInv
<1>2. CASE GetRain
  <2>1. /\ mVal = 0 /\ mVal' \in Nat /\ g_rainPulse' \in 0 .. PulseMod - 1
        /\ mVal' + g_rainPulse' = g_rainPulse
    BY <1>2, <1>t, GetRainTakes DEF GetRain, TypeOK, NothingHeld
  <2>2. TypeOK'
    BY <1>2, <1>t, <2>1 DEF GetRain, history, TypeOK
  <2>3. NoUnderflow' /\ NothingHeld'
    BY <1>2 DEF GetRain, NoUnderflow, NothingHeld
  <2>4. Conservation'
    <3>1. OnTheWay' = OnTheWay
      BY <1>2, <2>1, Balance DEF GetRain, OnTheWay
    <3> QED BY <1>2, <3>1, KeepsConservation DEF GetRain, history
  <2> QED BY <2>2, <2>3, <2>4 DEF IInv
<1>3. CASE SendMeasurement
  <2>1. Waiting(q250) = 0 /\ Waiting(q250') = mVal
    BY <1>3 DEF SendMeasurement, Waiting
  <2>2. TypeOK'
    BY <1>3, <1>t DEF SendMeasurement, history, TypeOK
  <2>3. NoUnderflow' /\ NothingHeld'
    BY <1>3 DEF SendMeasurement, NoUnderflow, NothingHeld
  <2>4. Conservation'
    <3>1. /\ RainIn(evq') = RainIn(evq) /\ InHand(evPc') = InHand(evPc)
          /\ g_rainPulse' = g_rainPulse /\ mVal' = 0
      BY <1>3 DEF SendMeasurement
    <3>2. OnTheWay' = OnTheWay
      BY <2>1, <3>1, Balance DEF OnTheWay
    <3> QED BY <1>3, <3>2, KeepsConservation DEF SendMeasurement, history
  <2> QED BY <2>2, <2>3, <2>4 DEF IInv
<1>4. CASE SendTimeout
  <2>1. TypeOK'
    <3>1. Tenths(mVal) \in Nat
      BY Units, Balance
    <3> QED BY <1>4, <1>t, <3>1 DEF SendTimeout, TypeOK
  <2>2. NoUnderflow' /\ NothingHeld'
    BY <1>4 DEF SendTimeout, NoUnderflow, NothingHeld
  <2>3. Conservation'
    <3>1. /\ RainIn(evq') = RainIn(evq) /\ InHand(evPc') = InHand(evPc)
          /\ g_rainPulse' = g_rainPulse /\ mVal' = 0 /\ Waiting(q250') = Waiting(q250)
      BY <1>4 DEF SendTimeout
    <3>2. OnTheWay' + mVal = OnTheWay /\ OnTheWay' \in Nat /\ mVal \in Nat
      BY <3>1, Balance DEF OnTheWay
    <3>3. /\ lost' = lost + Tenths(mVal) /\ accepted' = accepted
          /\ counted' = counted /\ wrapped' = wrapped /\ current' = current
      BY <1>4 DEF SendTimeout
    <3>4. /\ Tenths(OnTheWay) = Tenths(OnTheWay') + Tenths(mVal)
          /\ Tenths(OnTheWay') \in Nat /\ Tenths(mVal) \in Nat
      BY <3>2, Units
    <3> QED BY <3>3, <3>4, Balance DEF Conservation, InFlight
  <2> QED BY <2>1, <2>2, <2>3 DEF IInv
<1> QED BY <1>1, <1>2, <1>3, <1>4 DEF MeasureTask

(* What g_rainfall.current becomes, and what its eight bits cut off. *)
LEMMA CarryValue ==
    ASSUME IInv
    PROVE  /\ NewCurrent \in 0 .. CurrentMod - 1 /\ Carry \in Nat
           /\ NewCurrent + Carry = current + Tenths(Waiting(q250))
<1> DEFINE x == current + Tenths(Waiting(q250))
<1>1. x \in Nat
  <2>1. Waiting(q250) \in Nat /\ current \in Nat
    BY Balance
  <2>2. Tenths(Waiting(q250)) \in Nat
    BY <2>1, Units
  <2> QED BY <2>1, <2>2
<1>2. CurrentMod \in Nat \ {0}
  BY RainPulseAssumption
<1>3. NewCurrent = x % CurrentMod /\ Carry = x - NewCurrent
  BY DEF NewCurrent, Carry
<1> HIDE DEF x
<1>4. x % CurrentMod \in 0 .. CurrentMod - 1 /\ x % CurrentMod <= x
  <2>1. x % CurrentMod \in 0 .. CurrentMod - 1
    BY <1>1, <1>2, ModRange
  <2>2. x % CurrentMod <= x
    BY <1>1, <1>2, ModLe
  <2> QED BY <2>1, <2>2
<1>5. NewCurrent \in 0 .. CurrentMod - 1 /\ Carry \in Nat /\ NewCurrent + Carry = x
  BY <1>1, <1>3, <1>4
<1> QED BY <1>5 DEF x

(* DUALPORT_TASK. *)
LEMMA AwsSteps ==
    ASSUME IInv, AwsTask
    PROVE  IInv'
<1> USE RainPulseAssumption
<1>t. TypeOK /\ NoUnderflow /\ NothingHeld
  BY DEF IInv
<1>1. CASE AwsStart
  <2>1. TypeOK'
    BY <1>1, <1>t DEF AwsStart, history, TypeOK
  <2>2. NoUnderflow' /\ NothingHeld'
    BY <1>1, <1>t DEF AwsStart, NoUnderflow, NothingHeld
  <2>3. OnTheWay' = OnTheWay
    BY <1>1 DEF AwsStart, OnTheWay
  <2>4. Conservation'
    BY <1>1, <2>3, KeepsConservation DEF AwsStart, history
  <2> QED BY <2>1, <2>2, <2>4 DEF IInv
<1>2. CASE AwsScan
  <2>1. /\ counted' \in Nat /\ current' \in 0 .. CurrentMod - 1
        /\ counted' + current' = counted + NewCurrent
        /\ wrapped' = wrapped + Carry /\ wrapped' \in Nat
    <3>1. /\ NewCurrent \in 0 .. CurrentMod - 1 /\ Carry \in Nat
          /\ counted \in Nat /\ wrapped \in Nat
          /\ CurrentMod \in Nat \ {0}
      BY <1>t, CarryValue DEF TypeOK
    <3>2. /\ wrapped' = wrapped + Carry
          /\ \/ counted' = counted + NewCurrent /\ current' = 0
             \/ counted' = counted /\ current' = NewCurrent
      BY <1>2 DEF AwsScan
    <3> HIDE DEF NewCurrent, Carry
    <3> QED BY <3>1, <3>2
  <2>q. q250' \in Seq(Nat) /\ Len(q250') <= 1 /\ secPending' \in BOOLEAN
    <3>1. q250' = <<>> /\ secPending' = FALSE
      BY <1>2 DEF AwsScan
    <3>2. q250' \in Seq(Nat) /\ Len(q250') = 0
      BY <3>1
    <3>3. secPending' \in BOOLEAN
      BY <3>1
    <3> QED BY <3>2, <3>3
  <2>2. TypeOK'
    BY <1>2, <1>t, <2>1, <2>q DEF AwsScan, TypeOK
  <2>3. NoUnderflow' /\ NothingHeld'
    BY <1>2, <1>t DEF AwsScan, NoUnderflow, NothingHeld
  <2>4. Conservation'
    <3>1. OnTheWay' + Waiting(q250) = OnTheWay /\ OnTheWay' \in Nat
      <4>1. /\ RainIn(evq') = RainIn(evq) /\ InHand(evPc') = InHand(evPc)
            /\ g_rainPulse' = g_rainPulse /\ mVal' = mVal /\ Waiting(q250') = 0
        BY <1>2 DEF AwsScan, Waiting
      <4> QED BY <4>1, Balance DEF OnTheWay
    <3>3. lost' = lost /\ accepted' = accepted
      BY <1>2 DEF AwsScan
    <3>4. /\ Tenths(OnTheWay) = Tenths(OnTheWay') + Tenths(Waiting(q250))
          /\ Tenths(OnTheWay') \in Nat /\ Tenths(Waiting(q250)) \in Nat
      <4>1. Waiting(q250) \in Nat
        BY Balance
      <4> HIDE DEF Waiting
      <4> QED BY <3>1, <4>1, Units
    <3>5. NewCurrent \in Nat /\ Carry \in Nat
            /\ NewCurrent + Carry = current + Tenths(Waiting(q250))
      BY CarryValue, RainPulseAssumption
    <3> HIDE DEF NewCurrent, Carry, Waiting
    <3> QED BY <2>1, <3>3, <3>4, <3>5, Balance DEF Conservation, InFlight
  <2> QED BY <2>2, <2>3, <2>4 DEF IInv
<1> QED BY <1>1, <1>2 DEF AwsTask

(* The clocks, and steps that change nothing. *)
LEMMA ClockSteps ==
    ASSUME IInv, Tick \/ RtcSecond \/ UNCHANGED vars
    PROVE  IInv'
<1> USE RainPulseAssumption
<1>t. TypeOK /\ NoUnderflow /\ NothingHeld
  BY DEF IInv
<1>1. CASE Tick
  <2>1. tick' \in 0 .. TickMod - 1
    <3>1. TickMod \in Nat \ {0} /\ tick + 1 \in Int
      BY <1>t DEF TypeOK
    <3> QED BY <1>1, <3>1, ModRange DEF Tick
  <2>2. gap' \in 0 .. Debounce
    BY <1>1, <1>t DEF Tick, TypeOK
  <2>3. TypeOK'
    BY <1>1, <1>t, <2>1, <2>2 DEF Tick, TypeOK
  <2>4. NoUnderflow' /\ NothingHeld'
    BY <1>1, <1>t DEF Tick, NoUnderflow, NothingHeld
  <2>5. OnTheWay' = OnTheWay
    BY <1>1 DEF Tick, OnTheWay
  <2>6. Conservation'
    BY <1>1, <2>5, KeepsConservation DEF Tick
  <2> QED BY <2>3, <2>4, <2>6 DEF IInv
<1>2. CASE RtcSecond
  <2>1. TypeOK'
    BY <1>2, <1>t DEF RtcSecond, history, TypeOK
  <2>2. NoUnderflow' /\ NothingHeld'
    BY <1>2, <1>t DEF RtcSecond, NoUnderflow, NothingHeld
  <2>3. OnTheWay' = OnTheWay
    BY <1>2 DEF RtcSecond, OnTheWay
  <2>4. Conservation'
    BY <1>2, <2>3, KeepsConservation DEF RtcSecond, history
  <2> QED BY <2>1, <2>2, <2>4 DEF IInv
<1>3. CASE UNCHANGED vars
  BY <1>3 DEF vars, volatile, history, IInv, TypeOK, NoUnderflow, NothingHeld,
              Conservation, InFlight, OnTheWay
<1> QED BY <1>1, <1>2, <1>3

(* A reset accounts for everything that was in RAM as lost. *)
LEMMA ResetSteps ==
    ASSUME IInv, ResetSystem \/ PowerLoss
    PROVE  IInv'
<1> USE RainPulseAssumption
<1>1. Restart /\ faults' \in 0 .. MaxFaults
  BY DEF ResetSystem, PowerLoss, IInv, TypeOK
<1>2. /\ accepted' = accepted /\ counted' = counted /\ wrapped' = wrapped
      /\ InFlight \in Nat /\ lost' = lost + InFlight
      /\ OnTheWay' = 0 /\ current' = 0
  <2>1. RainIn(evq') = 0
    BY <1>1, RainInEmpty DEF Restart
  <2>2. InHand(evPc') = 0 /\ Waiting(q250') = 0
    BY <1>1 DEF Restart, InHand, Waiting
  <2>3. InFlight \in Nat
    BY Balance DEF InFlight
  <2>4. OnTheWay' = 0
    BY <1>1, <2>1, <2>2 DEF Restart, OnTheWay
  <2> QED BY <1>1, <2>3, <2>4 DEF Restart
<1>3. TypeOK'
  <2>1. /\ evq' \in Seq(Events) /\ Len(evq') = 0
        /\ q250' \in Seq(Nat) /\ Len(q250') = 0
    BY <1>1 DEF Restart
  <2>2. /\ tick' \in 0 .. TickMod - 1 /\ lastPulse' \in 0 .. TickMod - 1
        /\ g_rainPulse' \in 0 .. PulseMod - 1 /\ current' \in 0 .. CurrentMod - 1
        /\ Len(evq') <= EventQueueLen /\ Len(q250') <= 1
    BY <1>1, <2>1 DEF Restart
  <2>3. /\ evPc' \in {"idle", "rain", "reset"} /\ mPc' \in {"peek", "get", "put"}
        /\ awsUp' \in BOOLEAN /\ secPending' \in BOOLEAN
        /\ mPeek' \in Nat /\ mVal' \in Nat
    BY <1>1 DEF Restart
  <2>4. /\ gap' \in 0 .. Debounce /\ accepted' \in 0 .. MaxPulses
        /\ counted' \in Nat /\ lost' \in Nat /\ wrapped' \in Nat
    BY <1>1, <1>2, Balance DEF Restart, IInv, TypeOK
  <2> QED BY <1>1, <2>1, <2>2, <2>3, <2>4 DEF TypeOK
<1>4. NoUnderflow' /\ NothingHeld'
  BY <1>1 DEF Restart, NoUnderflow, NothingHeld
<1>5. Conservation'
  <2>1. Tenths(0) = 0
    BY Units
  <2>2. InFlight' = 0
    BY <1>2, <2>1, Balance DEF InFlight
  <2>3. Tenths(accepted) = counted + lost + wrapped + InFlight
    BY DEF IInv, Conservation
  <2> QED BY <1>2, <2>2, <2>3, Balance DEF Conservation
<1> QED BY <1>3, <1>4, <1>5 DEF IInv

LEMMA NextIInv ==
    ASSUME IInv, [Next]_vars
    PROVE  IInv'
BY ClockSteps, InterruptSteps, EventTaskSteps, MeasureSteps, AwsSteps, ResetSteps
DEF Next

(* The invariant, in every reachable state of a firmware of any size.        *)
THEOREM Invariance == Spec => []IInv
BY InitIInv, NextIInv, PTL DEF Spec

(* The queues never exceed the lengths they were created with and the        *)
(* counters stay within their widths.                                        *)
THEOREM TypeCorrect == Spec => []TypeOK
<1>1. IInv => TypeOK
  BY DEF IInv
<1> QED BY <1>1, Invariance, PTL

(* No hand-over between the interrupt, isrEventTask, measure250ms_task and   *)
(* DUALPORT_TASK loses or duplicates a tip without it being recorded.        *)
THEOREM ConservationHolds == Spec => []Conservation
<1>1. IInv => Conservation
  BY DEF IInv
<1> QED BY <1>1, Invariance, PTL

(* get_rain() never subtracts more than the counter holds.                   *)
THEOREM NoUnderflowHolds == Spec => []NoUnderflow
<1>1. IInv => NoUnderflow
  BY DEF IInv
<1> QED BY <1>1, Invariance, PTL

-----------------------------------------------------------------------------
(* The refinement: what each kind of step does to the books. *)

LEMMA StepOnBooks ==
    ASSUME IInv, [Next]_vars
    PROVE  [Ledger!Next]_(Ledger!books)
<1>b. /\ counted \in Nat /\ lost \in Nat /\ wrapped \in Nat /\ accepted \in Nat
      /\ Tenths(accepted) \in Nat /\ InFlight \in Nat
      /\ counted + (lost + wrapped) + InFlight = Tenths(accepted)
  <2>1. InFlight = Tenths(OnTheWay) + current
    BY DEF InFlight
  <2> QED BY <2>1, Balance
<1>1. ASSUME RainEdge
      PROVE  Ledger!Accept
  <2>1. /\ Tenths(accepted + 1) = Tenths(accepted) + Tenths(1)
        /\ Tenths(1) \in Nat \ {0}
    BY <1>b, Units
  <2>2. /\ accepted' = accepted + 1 /\ lost' \in {lost, lost + Tenths(1)}
        /\ counted' = counted /\ wrapped' = wrapped
    BY <1>1 DEF RainEdge
  <2>3. Tenths(accepted)' = Tenths(accepted) + Tenths(1)
    BY <2>1, <2>2
  <2>4. /\ Tenths(accepted)' > Tenths(accepted)
        /\ Tenths(accepted)' - Tenths(accepted) = Tenths(1)
    BY <1>b, <2>1, <2>3
  <2>5. \/ (lost + wrapped)' = lost + wrapped
        \/ (lost + wrapped)' = (lost + wrapped) + Tenths(1)
    <3>1. CASE lost' = lost
      BY <2>2, <3>1
    <3>2. CASE lost' = lost + Tenths(1)
      <4>1. (lost + wrapped)' = lost + Tenths(1) + wrapped
        BY <2>2, <3>2
      <4> QED BY <1>b, <2>1, <4>1
    <3> QED BY <2>2, <3>1, <3>2
  <2> QED BY <2>2, <2>4, <2>5 DEF Ledger!Accept
<1>2. ASSUME NEW c \in Nat, NEW l \in Nat, NEW w \in Nat, c + l + w <= InFlight,
             counted' = counted + c, lost' = lost + l, wrapped' = wrapped + w,
             accepted' = accepted
      PROVE  Ledger!Settle
  BY <1>b, <1>2 DEF Ledger!Settle
<1>3. ASSUME SendTimeout
      PROVE  Ledger!Settle
  <2>1. Tenths(mVal) \in Nat /\ Tenths(mVal) <= Tenths(OnTheWay)
    <3>1. mVal \in Nat /\ OnTheWay \in Nat /\ mVal <= OnTheWay
      BY Balance
    <3> QED BY <3>1, UnitsMonotonic
  <2>2. Tenths(mVal) <= InFlight
    BY <2>1, Balance DEF InFlight
  <2>3. /\ counted' = counted + 0 /\ lost' = lost + Tenths(mVal)
        /\ wrapped' = wrapped + 0 /\ accepted' = accepted
    BY <1>3, <1>b DEF SendTimeout
  <2> QED BY <1>2, <1>b, <2>1, <2>2, <2>3
<1>4. ASSUME ResetSystem \/ PowerLoss
      PROVE  Ledger!Settle
  <2>1. /\ counted' = counted + 0 /\ lost' = lost + InFlight
        /\ wrapped' = wrapped + 0 /\ accepted' = accepted
    BY <1>4, <1>b DEF ResetSystem, PowerLoss, Restart
  <2> QED BY <1>2, <1>b, <2>1
<1>5. ASSUME AwsScan
      PROVE  Ledger!Settle
  <2>1. Tenths(Waiting(q250)) \in Nat /\ Tenths(Waiting(q250)) <= Tenths(OnTheWay)
    <3>1. /\ Waiting(q250) \in Nat /\ OnTheWay \in Nat
          /\ Waiting(q250) <= OnTheWay
      BY Balance
    <3> QED BY <3>1, UnitsMonotonic
  <2>2. NewCurrent + Carry <= InFlight /\ NewCurrent \in Nat /\ Carry \in Nat
    BY <2>1, CarryValue, Balance DEF InFlight
  <2>3. wrapped' = wrapped + Carry /\ lost' = lost + 0 /\ accepted' = accepted
    BY <1>5, <1>b DEF AwsScan
  <2>4. CASE secPending
    <3>1. counted' = counted + NewCurrent
      BY <1>5, <2>4 DEF AwsScan
    <3>2. NewCurrent + 0 + Carry <= InFlight
      BY <2>2
    <3> QED BY <1>2, <1>b, <2>2, <2>3, <3>1, <3>2
  <2>5. CASE ~secPending
    <3>1. counted' = counted + 0
      BY <1>5, <1>b, <2>5 DEF AwsScan
    <3>2. 0 + 0 + Carry <= InFlight
      BY <1>b, <2>2
    <3> QED BY <1>2, <1>b, <2>2, <2>3, <3>1, <3>2
  <2> QED BY <2>4, <2>5
<1>6. ASSUME \/ Tick \/ RtcSecond \/ OtherEvent \/ ResetEvent \/ EventTask
             \/ PeekRain \/ GetRain \/ SendMeasurement \/ AwsStart
             \/ UNCHANGED vars
      PROVE  UNCHANGED Ledger!books
  BY <1>6
  DEF Tick, RtcSecond, OtherEvent, ResetEvent, EventTask, EventGet, IncreaseRain,
      PeekRain, GetRain, SendMeasurement, AwsStart, vars, history, Ledger!books
<1> QED BY <1>1, <1>3, <1>4, <1>5, <1>6
    DEF Next, Interrupts, MeasureTask, AwsTask, Ledger!Next

(* The rain path implements the ledger: however the interrupt, the tasks,    *)
(* full queues, timeouts and resets interleave, no rain is counted twice and *)
(* none is counted that was not accepted.                                    *)
THEOREM ImplementsLedger == Spec => LedgerSpec
<1>1. Init => Ledger!Init
  <2>1. Tenths(0) = 0
    BY Units
  <2> QED BY <2>1 DEF Init, Ledger!Init
<1> QED BY <1>1, StepOnBooks, Invariance, PTL DEF Spec, LedgerSpec, Ledger!Spec

-----------------------------------------------------------------------------
(* Debouncing. *)

\* While the true gap is known to be short the tick counter agrees with it.
GapInv == gap < Debounce => Elapsed <= gap

(* The unsigned difference of two ticks. *)
LEMMA ElapsedValue ==
    ASSUME TickMod \in Nat \ {0},
           NEW t \in 0 .. TickMod - 1, NEW l \in 0 .. TickMod - 1
    PROVE  (t - l) % TickMod = IF t >= l THEN t - l ELSE t - l + TickMod
<1>1. CASE t >= l
  BY <1>1, ModSmall
<1>2. CASE t < l
  BY <1>2, ModNegative
<1> QED BY <1>1, <1>2

(* The kernel tick counts modulo TickMod. *)
LEMMA NextTick ==
    ASSUME TickMod \in Nat \ {0}, NEW t \in 0 .. TickMod - 1
    PROVE  (t + 1) % TickMod = IF t = TickMod - 1 THEN 0 ELSE t + 1
<1>1. TickMod % TickMod = 0
  OBVIOUS
<1>2. CASE t = TickMod - 1
  BY <1>1, <1>2
<1>3. CASE t # TickMod - 1
  BY <1>3, ModSmall
<1> QED BY <1>2, <1>3

LEMMA GapStep ==
    ASSUME TypeOK, GapInv, [Next]_vars
    PROVE  GapInv'
<1>t. /\ TickMod \in Nat \ {0} /\ Debounce \in Nat \ {0} /\ Debounce < TickMod
      /\ tick \in 0 .. TickMod - 1 /\ lastPulse \in 0 .. TickMod - 1
      /\ gap \in 0 .. Debounce
  BY RainPulseAssumption DEF TypeOK
<1>1. CASE Tick
  <2>1. tick' = (IF tick = TickMod - 1 THEN 0 ELSE tick + 1)
        /\ lastPulse' = lastPulse /\ tick' \in 0 .. TickMod - 1
    BY <1>1, <1>t, NextTick DEF Tick
  <2>2. Elapsed = IF tick >= lastPulse THEN tick - lastPulse
                  ELSE tick - lastPulse + TickMod
    BY <1>t, ElapsedValue DEF Elapsed
  <2>3. Elapsed' = IF tick' >= lastPulse THEN tick' - lastPulse
                   ELSE tick' - lastPulse + TickMod
    BY <1>t, <2>1, ElapsedValue DEF Elapsed
  <2>4. Elapsed' <= Elapsed + 1
    BY <1>t, <2>1, <2>2, <2>3
  <2>5. Elapsed \in Int /\ Elapsed' \in Int
    BY <1>t, <2>1, <2>2, <2>3
  <2>6. gap' = IF gap < Debounce THEN gap + 1 ELSE gap
    BY <1>1 DEF Tick
  <2> HIDE DEF Elapsed
  <2> QED BY <1>t, <2>4, <2>5, <2>6 DEF GapInv
<1>2. CASE RainEdge
  <2>1. Elapsed' = 0 /\ gap' = 0
    BY <1>2, <1>t, ModSmall DEF RainEdge, Elapsed
  <2> QED BY <2>1 DEF GapInv
<1>3. CASE ResetSystem \/ PowerLoss
  <2>1. Elapsed' = 0 /\ gap' = gap
    BY <1>3, <1>t, ModSmall DEF ResetSystem, PowerLoss, Restart, Elapsed
  <2> QED BY <1>t, <2>1 DEF GapInv
<1>4. CASE UNCHANGED <<tick, lastPulse, gap>>
  BY <1>4 DEF GapInv, Elapsed
<1>5. \/ Tick \/ RainEdge \/ ResetSystem \/ PowerLoss
      \/ UNCHANGED <<tick, lastPulse, gap>>
  BY DEF Next, vars, volatile, history, RtcSecond, Interrupts, OtherEvent, ResetEvent,
         EventTask, EventGet, IncreaseRain, MeasureTask, PeekRain, GetRain,
         SendMeasurement, SendTimeout, AwsTask, AwsStart, AwsScan
<1> QED BY <1>1, <1>2, <1>3, <1>4, <1>5

(* Two accepted edges are Debounce ticks of real time apart, whatever the    *)
(* tick counter does in between and whether or not the firmware restarted.   *)
THEOREM DebounceHolds == Spec => Debounced
<1>1. Init => GapInv
  <2>1. 0 % TickMod = 0
    BY RainPulseAssumption, ModSmall
  <2> QED BY <2>1 DEF Init, GapInv, Elapsed
<1>2. TypeOK /\ GapInv /\ [Next]_vars => (accepted' # accepted => gap >= Debounce)
  <2> SUFFICES ASSUME TypeOK, GapInv, [Next]_vars, accepted' # accepted
               PROVE  gap >= Debounce
    OBVIOUS
  <2>1. RainEdge
    BY DEF Next, vars, volatile, history, Tick, RtcSecond, Interrupts, OtherEvent,
           ResetEvent, EventTask, EventGet, IncreaseRain, MeasureTask, PeekRain,
           GetRain, SendMeasurement, SendTimeout, AwsTask, AwsStart, AwsScan,
           ResetSystem, PowerLoss, Restart
  <2>2. Elapsed \in Int /\ gap \in Int /\ Debounce \in Int
    BY RainPulseAssumption DEF TypeOK, Elapsed
  <2> QED BY <2>1, <2>2 DEF RainEdge, GapInv
<1> QED BY <1>1, <1>2, GapStep, TypeCorrect, PTL DEF Spec, Debounced
=============================================================================
