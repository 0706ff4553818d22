--------------------------- MODULE SensorHistory ---------------------------
(***************************************************************************)
(* What the sensors of a board tell of the last day: the arrays of         *)
(* local_data_storage_array.c with the divisions of math_module.c, filled  *)
(* by the callback of the light resistor (light_resistor_gm5528.c) and by  *)
(* the last stage of the climate sensor (local_sht31_mcu_task.c), and read *)
(* by the command handlers.  How the raw values get here is I2cBus.        *)
(*                                                                         *)
(* The two sensors share no variable; a behaviour follows one of them.  A  *)
(* tick is the least time between two readings of a sensor.                *)
(***************************************************************************)
EXTENDS Integers, Sequences, FiniteSetsExt, SequencesExt

CONSTANTS
  HistoryLength,     \* ..._NUMBER_OF_HISTORY_VALUES, ..._ARRAY_NUMBER_OF_ELEMENTS
  HistoryInterval,   \* ..._MAXMIN_INTERVAL_MS in ticks
  RtcRange,          \* values of the clock behind the u32 timers
  AdcReading,        \* values of channel_3
  RawTemperature,    \* the two words of the SHT31's answer
  RawHumidity,
  MaxReadings        \* bound: readings in a behaviour

ASSUME HistoryAssumption ==
  /\ HistoryLength \in 1 .. 255
  /\ HistoryInterval \in Nat \ {0} /\ RtcRange \in Nat /\ HistoryInterval < RtcRange
  /\ MaxReadings \in Nat

ASSUME SensorAssumption ==      \* 16 bits each
  \A raw \in AdcReading \cup RawTemperature \cup RawHumidity : raw \in Nat /\ raw < 65536

VARIABLES
  storage,      \* the three arrays
  reading,      \* light, temperature and humidity of T_SYSTEM_DATA
  calibration,  \* adc_max_value, adc_min_value and steigung
  maxmin,       \* GM5528_MAXMIN_TIMER and task_timer_maxmin: on, and elapsed time
  sensed        \* history: the sensor, values added, ticks since, readings

sensevars == <<storage, reading, calibration, maxmin, sensed>>

Quantity == {"light", "temperature", "humidity"}

-----------------------------------------------------------------------------
(* The arrays and their divisions *)

\* The static initialisation says that an array is full.
BuiltStorage ==
  [ buffer |-> [i \in 0 .. HistoryLength - 1 |-> 0], write_pointer |-> 0,
    array_not_full |-> FALSE ]

StorageInit(s) == [s EXCEPT !.write_pointer = 0, !.array_not_full = TRUE]

WrongAddValue(s, value) ==     \* variant: the array never gets full
  LET place == s.write_pointer % HistoryLength IN
    [s EXCEPT !.buffer[place] = value, !.write_pointer = place + 1]

AddValue(s, value) ==
  LET wraps == s.write_pointer = HistoryLength
      place == IF wraps THEN 0 ELSE s.write_pointer
  IN  [s EXCEPT !.buffer[place] = value, !.write_pointer = place + 1,
                !.array_not_full = @ /\ ~wraps]

\* The places in use, the first ones: len of the three reads below.
Used(s) == IF s.array_not_full THEN s.write_pointer ELSE HistoryLength
Values(s) == {s.buffer[i] : i \in 0 .. Used(s) - 1}

\* The first n values of a buffer, added up one after the other.
Sum(buffer, n) ==
  LET sum[k \in 0 .. n] == IF k = 0 THEN 0 ELSE sum[k - 1] + buffer[k - 1]
  IN  sum[n]

\* math_div_i32: towards zero, and zero for a division by zero.
Divided(dividend, divisor) ==
  IF divisor = 0 THEN 0
  ELSE IF dividend < 0 THEN -((-dividend) \div divisor) ELSE dividend \div divisor

GetMean(s) == Divided(Sum(s.buffer, Used(s)), Used(s))
GetMax(s) == Max({0} \cup Values(s))
GetMin(s) == Min(Values(s))

-----------------------------------------------------------------------------

SenseInit ==
  /\ storage = [q \in Quantity |->
                  IF q = "light" THEN BuiltStorage ELSE StorageInit(BuiltStorage)]
  /\ reading = [q \in Quantity |->
       [ actual |-> 0, maximal |-> 0, mean |-> 0,
         minimal |-> IF q = "temperature" THEN 127 ELSE 100 ]]
  /\ calibration = [max |-> 26403, min |-> 213, slope |-> 262]
  /\ sensed \in {[ sensor |-> sensor, added |-> [q \in Quantity |-> <<>>], just |-> FALSE,
                   since |-> 0, rested |-> FALSE, readings |-> 0 ] : sensor \in {"light", "climate"}}
  /\ maxmin = [active |-> sensed.sensor = "climate", elapsed |-> 0]

Tick ==
  /\ maxmin' = IF maxmin.active THEN [maxmin EXCEPT !.elapsed = (@ + 1) % RtcRange] ELSE maxmin
  /\ sensed' = [sensed EXCEPT !.rested = TRUE, !.since = Min({@ + 1, HistoryInterval})]
  /\ UNCHANGED <<storage, reading, calibration>>

IsUp(timer) == timer.active /\ timer.elapsed >= HistoryInterval
StartedAgain == [active |-> TRUE, elapsed |-> 0]

\* New extremes of what was read.
Widened(r, value) ==
  [r EXCEPT !.actual = value, !.maximal = Max({@, value}), !.minimal = Min({@, value})]

\* The values of the array take the place of the extremes so far.
Shown(r, s) ==
  [r EXCEPT !.maximal = GetMax(s), !.minimal = GetMin(s), !.mean = GetMean(s)]

\* The readings r of some quantities, added to their arrays or not.
Noted(r, adds) ==
  LET next == [q \in Quantity |->
                 IF q \in DOMAIN r /\ adds THEN AddValue(storage[q], r[q].actual) ELSE storage[q]]
  IN  /\ storage' = next
      /\ reading' = [q \in Quantity |->
           IF q \notin DOMAIN r THEN reading[q]
           ELSE IF adds THEN Shown(r[q], next[q]) ELSE r[q]]
      /\ sensed' = [ sensed EXCEPT !.readings = @ + 1, !.rested = FALSE, !.just = adds,
           !.since = IF adds THEN 0 ELSE @,
           !.added = [q \in Quantity |->
             IF q \in DOMAIN r /\ adds THEN Append(@[q], r[q].actual) ELSE @[q]] ]

MayRead(sensor) ==
  sensed.sensor = sensor /\ sensed.rested /\ sensed.readings < MaxReadings

-----------------------------------------------------------------------------
(* The light resistor *)

WrongCalibrated(c) == c        \* variant: the slope is not followed up
Calibrated(c) == [c EXCEPT !.slope = Divided(c.max - c.min, 100)]

Stretched(c, adc) ==
  LET up == IF adc > c.max THEN Calibrated([c EXCEPT !.max = adc]) ELSE c IN
    IF adc < up.min THEN Calibrated([up EXCEPT !.min = adc]) ELSE up

\* light_resistor_gm5528_callback: the timer starts with the first value.
NewLight(adc) ==
  LET c == Stretched(calibration, adc)
      timer == IF maxmin.active THEN maxmin ELSE StartedAgain
      value == Divided(c.max - adc, c.slope) % 256
  IN  /\ MayRead("light")
      /\ calibration' = c
      /\ Noted([q \in {"light"} |-> Widened(reading.light, value)], IsUp(timer))
      /\ maxmin' = IF IsUp(timer) THEN StartedAgain ELSE timer

-----------------------------------------------------------------------------
(* The climate sensor *)

I8(n) == ((n + 128) % 256) - 128

\* Fixed point arithmetic of the two answers.
Celsius(raw) == I8(I8((raw * 175) \div 65536 - 45) - 4)
Percent(raw) == (raw * 100) \div 65536

\* A new maximum of the humidity gets the temperature's value.
HumidityWidened(r, value, temperature) ==
  [r EXCEPT !.actual = value, !.minimal = Min({@, value}),
            !.maximal = IF value > @ THEN temperature % 256 ELSE @]

\* SHT31_TASK_STATE_PROCESS_TEMP_HUM_DATA: values are added, and the timer is
\* started again, while it is not up.
NewClimate(temperature, humidity) ==
  LET warmth == Celsius(temperature)
      r == [q \in {"temperature", "humidity"} |->
              IF q = "temperature" THEN Widened(reading.temperature, warmth)
              ELSE HumidityWidened(reading.humidity, Percent(humidity), warmth)]
  IN  /\ MayRead("climate")
      /\ Noted(r, ~IsUp(maxmin))
      /\ maxmin' = IF IsUp(maxmin) THEN maxmin ELSE StartedAgain
      /\ UNCHANGED calibration

SenseNext ==
  \/ Tick
  \/ \E adc \in AdcReading : NewLight(adc)
  \/ \E t \in RawTemperature, h \in RawHumidity : NewClimate(t, h)

SenseSpec == SenseInit /\ [][SenseNext]_sensevars

-----------------------------------------------------------------------------
(* Properties *)

\* The values that an array is meant to hold.
Recent(q) ==
  LET all == sensed.added[q] IN
    SubSeq(all, Max({1, Len(all) - HistoryLength + 1}), Len(all))

\* Mean and, when a value was just added, the extremes are those of the values
\* added last, through the wraps of the array: a value leaves them when it is as
\* old as the array is long.  (Zero counts for the maximum of the temperature;
\* the array of the light is not initialised and shows zeros until it is full.)
HistoryIsRecent ==
  \A q \in Quantity :
    LET w == Recent(q) IN
      Len(w) >= (IF q = "light" THEN HistoryLength ELSE 1) =>
        /\ reading[q].mean = Divided(Sum([i \in 0 .. Len(w) - 1 |-> w[i + 1]], Len(w)), Len(w))
        /\ sensed.just => /\ reading[q].minimal = Min(ToSet(w))
                          /\ reading[q].maximal = Max({0} \cup ToSet(w))

\* Light is a share of a hundred whatever the resistor was calibrated to, and
\* neither light nor temperature is outside the extremes told with it, although
\* these come from two places.
ReadingsInRange ==
  sensed.readings > 0 =>
    /\ reading.light.actual \in 0 .. 100
    /\ LET q == IF sensed.sensor = "light" THEN "light" ELSE "temperature" IN
         reading[q].minimal <= reading[q].actual /\ reading[q].actual <= reading[q].maximal

\* A value of temperature and humidity is added "every 15 minutes"
\* (local_sht31_mcu_task.c:35): with the first reading after that time, and with
\* no other.
AddedEvery15Minutes ==
  [][sensed.sensor = "climate" /\ sensed'.readings # sensed.readings =>
       (sensed'.just <=> sensed.since = HistoryInterval)]_sensevars
=============================================================================
