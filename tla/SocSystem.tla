----------------------------- MODULE SocSystem -----------------------------
(***************************************************************************)
(* The address map of the DE10 system as its two ARM cores see it, from    *)
(* the generated header soc_system.h: where each device begins and how far *)
(* it spans, <<base, span>>, in blocks of 256 bytes (every base and every  *)
(* span is a multiple of that).  The header gives each core a map of its   *)
(* own; it is written here in four groups per core, in the header's order. *)
(***************************************************************************)
EXTENDS Integers

Arm0Memory ==
    [axi_sdram |-> <<0, 8388608>>, mem_interface_0 |-> <<16719872, 4>>,
     gmac0 |-> <<16740352, 32>>, gmac1 |-> <<16740384, 32>>,
     sdmmc |-> <<16740416, 16>>, qspi_axi_slave0 |-> <<16740432, 1>>,
     fpgamgr_axi_slave0 |-> <<16740448, 16>>, gpio0 |-> <<16740480, 1>>,
     gpio1 |-> <<16740496, 1>>, gpio2 |-> <<16740512, 1>>]

Arm0Io ==
    [l3regs |-> <<16744448, 16>>, nand0_axi_slave0 |-> <<16748544, 256>>,
     qspi_axi_slave1 |-> <<16752640, 1>>, usb0 |-> <<16756736, 1024>>,
     usb1 |-> <<16757760, 1024>>, nand0_axi_slave1 |-> <<16758784, 256>>,
     fpgamgr_axi_slave1 |-> <<16759040, 1>>, dcan0 |-> <<16760832, 16>>,
     dcan1 |-> <<16760848, 16>>, uart0 |-> <<16760864, 1>>]

Arm0Slow ==
    [uart1 |-> <<16760880, 1>>, i2c0 |-> <<16760896, 1>>,
     i2c1 |-> <<16760912, 1>>, i2c2 |-> <<16760928, 1>>,
     i2c3 |-> <<16760944, 1>>, timer0 |-> <<16760960, 1>>,
     timer1 |-> <<16760976, 1>>, sdrctl |-> <<16761424, 16>>,
     timer2 |-> <<16764928, 1>>, timer3 |-> <<16764944, 1>>]

Arm0System ==
    [wd_timer0 |-> <<16764960, 1>>, wd_timer1 |-> <<16764976, 1>>,
     clkmgr |-> <<16764992, 16>>, rstmgr |-> <<16765008, 1>>,
     sysmgr |-> <<16765056, 4>>, dma |-> <<16769040, 16>>,
     spim0 |-> <<16773120, 1>>, spim1 |-> <<16773136, 1>>,
     scu |-> <<16776896, 1>>, arm_gic_0_axi_slave1 |-> <<16776897, 1>>,
     timer |-> <<16776902, 1>>, arm_gic_0_axi_slave0 |-> <<16776912, 16>>,
     l2 |-> <<16776944, 16>>, axi_ocram |-> <<16776960, 256>>]

Arm1Memory ==
    [axi_sdram |-> <<0, 8388608>>, mem_interface_0 |-> <<16719872, 4>>,
     gmac0 |-> <<16740352, 32>>, gmac1 |-> <<16740384, 32>>,
     sdmmc |-> <<16740416, 16>>, qspi_axi_slave0 |-> <<16740432, 1>>,
     fpgamgr_axi_slave0 |-> <<16740448, 16>>, gpio0 |-> <<16740480, 1>>,
     gpio1 |-> <<16740496, 1>>, gpio2 |-> <<16740512, 1>>]

Arm1Io ==
    [l3regs |-> <<16744448, 16>>, nand0_axi_slave0 |-> <<16748544, 256>>,
     qspi_axi_slave1 |-> <<16752640, 1>>, usb0 |-> <<16756736, 1024>>,
     usb1 |-> <<16757760, 1024>>, nand0_axi_slave1 |-> <<16758784, 256>>,
     fpgamgr_axi_slave1 |-> <<16759040, 1>>, dcan0 |-> <<16760832, 16>>,
     dcan1 |-> <<16760848, 16>>, uart0 |-> <<16760864, 1>>]

Arm1Slow ==
    [uart1 |-> <<16760880, 1>>, i2c0 |-> <<16760896, 1>>,
     i2c1 |-> <<16760912, 1>>, i2c2 |-> <<16760928, 1>>,
     i2c3 |-> <<16760944, 1>>, timer0 |-> <<16760960, 1>>,
     timer1 |-> <<16760976, 1>>, sdrctl |-> <<16761424, 16>>,
     timer2 |-> <<16764928, 1>>, timer3 |-> <<16764944, 1>>]

Arm1System ==
    [wd_timer0 |-> <<16764960, 1>>, wd_timer1 |-> <<16764976, 1>>,
     clkmgr |-> <<16764992, 16>>, rstmgr |-> <<16765008, 1>>,
     sysmgr |-> <<16765056, 4>>, dma |-> <<16769040, 16>>,
     spim0 |-> <<16773120, 1>>, spim1 |-> <<16773136, 1>>,
     scu |-> <<16776896, 1>>, arm_gic_0_axi_slave1 |-> <<16776897, 1>>,
     timer |-> <<16776902, 1>>, arm_gic_0_axi_slave0 |-> <<16776912, 16>>,
     l2 |-> <<16776944, 16>>, axi_ocram |-> <<16776960, 256>>]

-----------------------------------------------------------------------------
Cores == {0, 1}

\* The whole map of each core, its four groups.
View == [core \in Cores |->
            IF core = 0 THEN {Arm0Memory, Arm0Io, Arm0Slow, Arm0System}
                        ELSE {Arm1Memory, Arm1Io, Arm1Slow, Arm1System}]

\* The devices that answer in a block of addresses: more than one where the map
\* overlaps, none where it has a hole.
Decode(core, block) ==
    UNION {{d \in DOMAIN G : block \in G[d][1] .. G[d][1] + G[d][2] - 1} :
              G \in View[core]}

\* The registers of the motors, the same macros for either core.
MAP_BASE == Arm0Memory.mem_interface_0[1]
MAP_SIZE == 256 * Arm0Memory.mem_interface_0[2]
=============================================================================
