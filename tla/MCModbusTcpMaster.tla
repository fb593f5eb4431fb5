------------------------- MODULE MCModbusTcpMaster -------------------------
(* Instances of ModbusTcpMaster for TLC.  Points are named after the entries *)
(* of modbus_tcp_master.ini: do1 and do2 are coils, ao1 a register; k1 and   *)
(* k2 are channels.                                                          *)
EXTENDS ModbusTcpMaster, TLC

CONSTANTS do1, do2, ao1, k1, k2, adr1, adr2

MCAo        == [p \in Point |-> p = ao1]
MCPulsed    == [p \in Point |-> p # ao1]
MCAllPulsed == [p \in Point |-> TRUE]
MCNone      == [p \in Point |-> FALSE]

\* One channel, or two whose devices use the same station and register.
MCOneChannel  == [p \in Point |-> k1]
MCTwoChannels == [p \in Point |-> IF p = do1 THEN k1 ELSE k2]
MCAddress     == [p \in Point |-> IF p = ao1 THEN adr2 ELSE adr1]

\* Slave protocols and the console command a DO both ways, PEMP only to ON.
MCBoth == [p \in Point |-> IF p = ao1 THEN Value ELSE {0, 1}]
MCOn   == [p \in Point |-> IF p = ao1 THEN Value \ {0} ELSE {1}]
=============================================================================
