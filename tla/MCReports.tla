------------------------------ MODULE MCReports ------------------------------
(***************************************************************************)
(* The instance of the reports: two locations, a source file of two days   *)
(* with a row every six hours, a derived past of a year with its hours     *)
(* around the changes of local month and of summer time, and live readings *)
(* across the spring change and the end of the month.  Values are          *)
(* multiples of 60, so that the averages of an hour are exact.             *)
(***************************************************************************)
EXTENDS Observations

CONSTANTS d1, d2

At(year, month, day, half) == Midnight(Ordinal(year, month, day)) + half

MCLocations == <<d2, d1>>

MCCurve == [day \in 1 .. 366 |-> -AbsoluteOf(day - 196)]

\* Six-hourly rows from 06:00 on the first day.
File(co, temp, humidity) ==
    [i \in 1 .. 7 |-> [ts |-> At(2020, 7, 12, 12 * i),
                       values |-> "co" :> co[i] @@ "temp" :> temp[i] @@ "humidity" :> humidity[i]]]

MCSource ==
    d1 :> File(<<600, 600, 660, 600, 600, 1080, 480>>,
               <<1080, 1200, 1320, 1200, 1080, 1200, 1320>>,
               <<3000, 3300, 3600, 3000, 2700, 2400, 3000>>) @@
    d2 :> File(<<120, 180, 120, 60, 180, 120, 60>>,
               <<1200, 1500, 900, 1200, 1500, 900, 1200>>,
               <<4200, 4500, 4200, 3900, 4200, 4500, 3900>>)

MCDerivedAt ==
    {At(2025, 3, 14, 20), At(2025, 10, 25, 45), At(2026, 2, 28, 45), At(2026, 2, 28, 46)}

MCNoise ==
    LET none  == [m \in Recorded |-> 0]
        some  == "co" :> 60 @@ "temp" :> -480 @@ "humidity" :> 60
        mixed == [t \in MCDerivedAt |-> IF t % 2 = 0 THEN none ELSE some]
    IN  {[t \in MCDerivedAt |-> none], mixed, [t \in MCDerivedAt |-> some]}

MCAnchor == At(2026, 3, 29, 0)

MCClock == <<At(2026, 3, 29, 1), At(2026, 3, 29, 2), At(2026, 3, 29, 3), At(2026, 3, 29, 44),
             At(2026, 3, 29, 47), At(2026, 3, 30, 1), At(2026, 3, 31, 44)>>

Reading(device, co, temp, humidity, flagged) ==
    [device |-> device, flagged |-> flagged,
     values |-> "co" :> co @@ "temp" :> temp @@ "humidity" :> humidity]

\* At 23:30 the temperature is inside the band of the next midnight alone.
MCLiveChoices ==
    LET usual == {Reading(d1, 660, 120, 4200, FALSE)}
        high  == {Reading(d1, 1260, 120, 4200, TRUE), Reading(d2, 120, -360, 5160, TRUE)}
        cold  == {Reading(d1, 540, -180, 4200, TRUE)}
        edge  == {Reading(d1, 660, 320, 4200, TRUE)}
        warm  == {Reading(d2, 240, 720, 5160, FALSE), Reading(d1, 1020, 360, 3000, TRUE)}
    IN  << {usual, high}, {high, cold}, {{}, high}, {usual, cold}, {high, edge}, {usual}, {{}, warm} >>
=============================================================================
