---------------------------- MODULE MCScheduler ----------------------------
(* The clocks of the test bench (tb.h:261-285, 419): two oscillators and   *)
(* the reader of scenarios, which never comes back; two clocks divided     *)
(* from the first (clk_gen.h) and one gated by it.                         *)
EXTENDS Scheduler

MCDrives == [f \in Forever |->
  CASE f = "p0" -> "clk" [] f = "p2" -> "clk_100" [] f = "p7" -> NoEvent]
MCWaits == [f \in Forever |->
  CASE f = "p0" -> {2} [] f = "p2" -> {1, 2, 3} [] f = "p7" -> {-1}]
MCDerived == [c \in Clocks |-> IF c = "clk" THEN <<"c2", "c0">> ELSE <<>>]
MCGated == [c \in Clocks |-> IF c = "clk" THEN <<"gated">> ELSE <<>>]
=============================================================================
