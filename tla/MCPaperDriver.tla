---------------------------- MODULE MCPaperDriver ----------------------------
(* Window times of the markets in the instances of PaperDriver for TLC. *)
EXTENDS PaperDriver, TLC

\* One 5-minute market, SettleT = 4 (and with SettleT = 3).
OneOpen    == "m1" :> 0
OneClose   == "m1" :> 4
ShortClose == "m1" :> 3

\* Two consecutive 5-minute markets, SettleT = 3.
TwoOpen  == "m1" :> 0 @@ "m2" :> 3
TwoClose == "m1" :> 3 @@ "m2" :> 6

\* The same on either side of midnight at time 5.
MidOpen  == "m1" :> 2 @@ "m2" :> 5
MidClose == "m1" :> 5 @@ "m2" :> 8

\* A market whose window is longer than SettleT = 3, like the 15-minute ones.
LongOpen  == "m1" :> 0
LongClose == "m1" :> 4
=============================================================================
