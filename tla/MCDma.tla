------------------------------- MODULE MCDma -------------------------------
(* Drivers of the DMA.  Memory has four bytes, in words of two.            *)
EXTENDS DmaDataProofs

Config(source, to_mem) ==
  [source |-> source, to_mem |-> to_mem, auto_inc |-> 1, span |-> WordBytes,
   priority |-> 1]
Set(reg, val) == [reg |-> reg, val |-> val]
Empty == [a \in Addrs |-> NoByte]

(* Two transfers from the UART to memory, one after the other.             *)
WriteScenario ==
  [program |-> <<
     Set("addr", 0), Set("size", 4), Set("config", Config("uart", TRUE)),
     Set("wait", 0), Set("size", 2), Set("config", Config("uart", TRUE)) >>,
   mem |-> Empty, senders |-> {"uart"}, maxbytes |-> 6, maxbusy |-> 3, code |-> 0]

(* Channel 1 sends memory to the SPI, then channel 0 fills it from the UART. *)
ReadScenario ==
  [program |-> <<
     Set("channel", 1), Set("addr", 1), Set("size", 3),
     Set("config", Config("spi", FALSE)), Set("wait", 1),
     Set("channel", 0), Set("size", 2), Set("config", Config("uart", TRUE)) >>,
   mem |-> [a \in Addrs |-> AddrMod - 1 - a],
   senders |-> {"uart"}, maxbytes |-> 2, maxbusy |-> 2, code |-> 0]

(* A transfer from the UART with a timeout.                                *)
TimeoutScenario ==
  [program |-> <<
     Set("addr", 0), Set("size", 4), Set("timeout", 2),
     Set("config", Config("uart", TRUE)) >>,
   mem |-> Empty, senders |-> {"uart"}, maxbytes |-> 4, maxbusy |-> 2, code |-> 0]

(* These are drivers the theorems of DmaDataProofs, and with them those of  *)
(* DmaBusProofs, speak about.                                              *)
ASSUME MCDriversAssumption ==
  \A s \in {WriteScenario, ReadScenario, TimeoutScenario} : Patient(s)

(* The address and the size of each channel before each write of driver p. *)
Outline(p) ==
  LET cur == CurAt(p)
      at[i \in 1 .. Len(p) + 1] ==
        IF i = 1 THEN [c \in Channels |-> [addr |-> 0, size |-> 0]]
        ELSE LET w == p[i - 1]
                 k == at[i - 1]
                 r == k[cur[i - 1]]
             IN [k EXCEPT ![cur[i - 1]] =
                   CASE w.reg = "addr" -> [r EXCEPT !.addr = w.val]
                     [] w.reg = "size" -> [r EXCEPT !.size = w.val]
                     [] w.reg = "config" /\ w.val.to_mem ->
                          [addr |-> Behind(w.val, r.addr, r.size), size |-> 0]
                     [] w.reg = "config" /\ ~w.val.to_mem ->
                          [addr |-> Behind(w.val, r.addr, r.size - 1), size |-> 0]
                     [] OTHER -> r]
  IN at

(* A transfer of a single byte, then the host loads code.                  *)
LoadScenario ==
  [program |-> << Set("addr", 1), Set("size", 1), Set("config", Config("uart", TRUE)) >>,
   mem |-> Empty, senders |-> {"uart"}, maxbytes |-> 2, maxbusy |-> 1, code |-> 4]

(* Channel 1 sends two bytes of memory and gets a timeout for later; then   *)
(* the host loads half as much code.                                       *)
ShortLoadScenario ==
  [program |-> <<
     Set("channel", 1), Set("addr", 1), Set("size", 2),
     Set("config", Config("spi", FALSE)), Set("wait", 1), Set("timeout", 1),
     Set("channel", 0), Set("size", 3) >>,
   mem |-> [a \in Addrs |-> AddrMod - 1 - a],
   senders |-> {"uart"}, maxbytes |-> 0, maxbusy |-> 1, code |-> 2]

(* CodeIsLoaded speaks about all these drivers, TransfersAreExact about    *)
(* the first three.                                                        *)
ASSUME MCMeasuredAssumption ==
  \A s \in {WriteScenario, ReadScenario, TimeoutScenario, LoadScenario, ShortLoadScenario} :
    LET at == Outline(s.program) IN
    WellFormed(s) /\ IsPlan(s.program, at) /\ Room(s, at) /\ Uploads(s)

(* A driver sets a timeout, as spi_pwm.cpp does, before code is loaded.    *)
ReloadScenario ==
  [program |-> << Set("timeout", 2) >>,
   mem |-> Empty, senders |-> {"uart"}, maxbytes |-> 0, maxbusy |-> 1, code |-> 4]

(* Channel 0 listens to the UART while channel 1 sends memory to the SPI.  *)
TwoScenario ==
  [program |-> <<
     Set("addr", 0), Set("size", 2), Set("config", Config("uart", TRUE)),
     Set("channel", 1), Set("addr", 2), Set("size", 2),
     Set("config", Config("spi", FALSE)) >>,
   mem |-> [a \in Addrs |-> AddrMod - 1 - a],
   senders |-> {"uart"}, maxbytes |-> 2, maxbusy |-> 2, code |-> 0]

TwoChannels == {TwoScenario}
OneChannel ==
  {WriteScenario, ReadScenario, TimeoutScenario, LoadScenario, ShortLoadScenario}
Reload == {ReloadScenario}
Burst == {[WriteScenario EXCEPT !.maxbusy = 4]}
=============================================================================
