---------------------------- MODULE MCMarketMaker ----------------------------
(* Window times of the markets in the instances of MarketMaker for TLC. *)
EXTENDS MarketMaker, TLC

OneOpen  == "m1" :> 1
OneClose == "m1" :> 7
ShortClose == "m1" :> 6

\* Two markets open at the same time (a BTC and an ETH window).
TwoOpen  == "m1" :> 1 @@ "m2" :> 1
TwoClose == "m1" :> 6 @@ "m2" :> 6
=============================================================================
