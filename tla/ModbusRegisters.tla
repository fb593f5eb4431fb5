--------------------------- MODULE ModbusRegisters -------------------------
(* Points of a Modbus slave of this program (modbus_tcp_slave.cxx,           *)
(* modbus_rtu_slave.cxx) as a master of this program reads them              *)
(* (modbus_tcp_master.cxx, modbus_rtu_master.cxx): the registers that the    *)
(* slave shows, the blocks that PollDevice asks for, the byte orders, and    *)
(* the points that an answer is given to.  While the blocks of a poll are    *)
(* read one after the other, the slave's table changes.                      *)
(*                                                                           *)
(* A DI point has func (1, 2: coils; 3, 4: a bit of a register), addr, bit   *)
(* and its number in the slave's table, point; an AI point func, addr, regs, *)
(* endian.  A DI value is a boolean; an AI value is the function from        *)
(* 0 .. 2 * regs - 1 that gives the byte of each weight: scale and offset    *)
(* are undone by the master.  A byte or a register is the set of its bits    *)
(* that are on.                                                              *)
EXTENDS Integers, FiniteSetsExt, Functions

CONSTANTS
  Di, Ai,         \* names of the points
  Layouts, SerialLayouts,   \* configurations of a TCP and of an RTU pair
  Bases,          \* an AI value has the bytes base, base + 1, ...
  AddrSpace,      \* 2^16 in the code
  ByteBits,       \* coils in a byte of an answer, 8
  MaxDiRead, MaxAiRead,   \* max_di_read, max_ai_read
  MaxDataChanges  \* bound on the changes of the slave's table during a poll

\* The slave refuses blocks longer than 2000 coils or 125 registers.
ASSUME RegistersAssumption ==
  /\ Di \cap Ai = {} /\ Bases \subseteq Nat
  /\ AddrSpace \in Nat \ {0} /\ ByteBits \in Nat \ {0}
  /\ MaxDiRead \in 1..2000 /\ MaxAiRead \in 1..125
  /\ MaxDataChanges \in Nat

VARIABLES
  serial,         \* RTU master and slave, else TCP
  layout,         \* the configuration of both ends
  table,          \* the slave's point table
  seen,           \* values that a point has had since the poll began
  master,         \* the master's point table, Unread before
  toRead,         \* points that PollDevice has still to ask for
  dataChanges

registerVars == <<serial, layout, table, seen, master, toRead, dataChanges>>
Unread == "unread"
Point == Di \cup Ai

-----------------------------------------------------------------------------
(* Byte orders.  WireOrder: which byte of the value goes out first, second   *)
(* ...; ReadOrder: which weight the first, second ... byte read is given.    *)

Endian2 == {"AB", "BA"}
Endian4 == {"ABCD", "CDAB", "BADC", "DCBA"}
Endian8 == {"ABCDEFGH", "GHEFCDAB", "HGFEDCBA"}
Endians(regs) == CASE regs = 1 -> Endian2 [] regs = 2 -> Endian4 [] OTHER -> Endian8

Order(endian, ghefcdab) ==
  CASE endian = "AB"       -> <<1, 0>>
    [] endian = "BA"       -> <<0, 1>>
    [] endian = "ABCD"     -> <<3, 2, 1, 0>>
    [] endian = "CDAB"     -> <<1, 0, 3, 2>>
    [] endian = "BADC"     -> <<2, 3, 0, 1>>
    [] endian = "DCBA"     -> <<0, 1, 2, 3>>
    [] endian = "ABCDEFGH" -> <<7, 6, 5, 4, 3, 2, 1, 0>>
    [] endian = "GHEFCDAB" -> ghefcdab
    [] endian = "HGFEDCBA" -> <<0, 1, 2, 3, 4, 5, 6, 7>>

(* Mutant: the slave confuses the two orders with swapped halves. *)
WireOrderSwapped(endian) ==
  Order(CASE endian = "CDAB" -> "BADC" [] endian = "BADC" -> "CDAB" [] OTHER -> endian,
        <<5, 6, 7, 4, 1, 0, 3, 2>>)

WireOrder(endian) == Order(endian, <<5, 6, 7, 4, 1, 0, 3, 2>>)
ReadOrder(endian) == Order(endian, <<1, 0, 3, 2, 5, 4, 7, 6>>)

RawToWireBytes(value, endian) ==
  [i \in DOMAIN WireOrder(endian) |-> value[WireOrder(endian)[i]]]

(* RTU: the first register of the point, high byte first, whatever its type. *)
ParseValue(bytes, endian) ==
  IF serial THEN [w \in {0, 1} |-> bytes[2 - w]]
  ELSE [w \in Range(ReadOrder(endian)) |->
          bytes[CHOOSE i \in DOMAIN bytes : ReadOrder(endian)[i] = w]]

Byte == SUBSET (0..7)
Word(high, low) == low \cup {b + 8 : b \in high}
High(word) == {b \in 0..7 : b + 8 \in word}
Low(word) == {b \in 0..7 : b \in word}

-----------------------------------------------------------------------------
(* The slave.  The answer to a block has the registers start .. start + qty  *)
(* - 1, or a coil for each of the offsets 0 .. qty - 1.                      *)

LastAddrOf(l, p) == l[p].addr + (IF p \in Ai THEN l[p].regs ELSE 1) - 1
LastAddr(p) == LastAddrOf(layout, p)

(* ModbusRtuSlave::LoadConfig drops what is at address 0, but for coils whose *)
(* point has a number.                                                       *)
Coil(l, p)   == p \in Di /\ l[p].func \in {1, 2}
Kept(l, p)   == l[p].addr # 0 \/ (Coil(l, p) /\ l[p].point # 0)
Loaded(p)    == serial => Kept(layout, p)

(* Only points that begin inside the block.  TCP: one map for FC03 and FC04, *)
(* and the end of the block is computed in 16 bits.                          *)
AiIn(func, start, qty) ==
  {a \in Ai : /\ Loaded(a) /\ start <= layout[a].addr
              /\ IF serial THEN layout[a].func = func /\ layout[a].addr < start + qty
                           ELSE layout[a].addr < (start + qty) % AddrSpace}

RegisterOfAi(a, addr) ==
  LET wire == RawToWireBytes(table[a], layout[a].endian)
      at == 2 * (addr - layout[a].addr) IN Word(wire[at + 1], wire[at + 2])

BitsIn(func, addr) ==
  {d \in Di : /\ Loaded(d) /\ layout[d].func \in {3, 4} /\ layout[d].addr = addr
              /\ serial => layout[d].func = func}

(* AI points are written in the order of their addresses, then the DI bits.  *)
HandleFCReadRegs(func, start, qty) ==
  [addr \in start..(start + qty - 1) |->
     LET ais == {a \in AiIn(func, start, qty) : addr \in layout[a].addr..LastAddr(a)}
         last == CHOOSE a \in ais : \A other \in ais : layout[other].addr <= layout[a].addr
         word == IF ais = {} THEN {} ELSE RegisterOfAi(last, addr)
     IN (word \ {layout[d].bit : d \in BitsIn(func, addr)})
        \cup {layout[d].bit : d \in {e \in BitsIn(func, addr) : table[e]}}]

(* Coils are padded to whole bytes. *)
Padded(qty) == ByteBits * ((qty + ByteBits - 1) \div ByteBits)

HandleFC01(func, start, qty) ==
  [i \in 0..(Padded(qty) - 1) |->
     i < qty /\ \E d \in Di : /\ Loaded(d) /\ layout[d].func = func
                              /\ layout[d].addr = start + i /\ table[d]]

-----------------------------------------------------------------------------
(* The master.                                                               *)

(* The points that the next block takes from those left: in the order of     *)
(* their addresses, up to the first that would make it too long.             *)
Block(points, limit) ==
  LET start == Min({layout[p].addr : p \in points})
      fits(p) == LastAddr(p) - start + 1 <= limit
  IN {p \in points : \/ layout[p].addr = start
                     \/ \A q \in points : layout[q].addr <= layout[p].addr => fits(q)}

BlockStart(block) == Min({layout[p].addr : p \in block})
Quantity(block) == Max({LastAddr(p) : p \in block}) - BlockStart(block) + 1

(* Addresses are subtracted in 16 bits. *)
Offset(p, start) == (layout[p].addr - start) % AddrSpace

(* The points that an answer of FC01/02 is given to, and their values.  RTU: *)
(* every DI of the device, of any function, at an offset that it has.  TCP:  *)
(* the last address is also the mark for "no address", never asked for.      *)
DispatchFC01or02(func, block) ==
  LET start == BlockStart(block)
      coils == HandleFC01(func, start, Quantity(block))
      asked == IF serial THEN {d \in Di : Offset(d, start) \in DOMAIN coils}
               ELSE IF start = AddrSpace - 1 THEN {} ELSE block
  IN [p \in asked |-> coils[Offset(p, start)]]

DispatchFC03or04(func, block) ==
  LET words == HandleFCReadRegs(func, BlockStart(block), Quantity(block))
      word(p, i) == words[layout[p].addr + (i - 1) \div 2]
      bytes(p) == [i \in 1..2 * layout[p].regs |->
                     IF i % 2 = 1 THEN High(word(p, i)) ELSE Low(word(p, i))]
  IN [p \in block |-> IF p \in Di THEN layout[p].bit \in words[layout[p].addr]
                      ELSE ParseValue(bytes(p), layout[p].endian)]

-----------------------------------------------------------------------------
AiValue(a, base) ==
  [w \in 0..(2 * layout[a].regs - 1) |-> {b \in 0..7 : ((base + w) \div 2^b) % 2 = 1}]
Values(p) == IF p \in Di THEN BOOLEAN ELSE {AiValue(p, base) : base \in Bases}

RegistersInit ==
  /\ serial \in BOOLEAN
  /\ layout \in IF serial THEN SerialLayouts ELSE Layouts
  /\ \E on \in SUBSET Di, base \in Bases :
       table = [p \in Point |-> IF p \in Di THEN p \in on ELSE AiValue(p, base)]
  /\ seen = [p \in Point |-> {table[p]}]
  /\ master = [p \in Point |-> Unread]
  /\ toRead = Point
  /\ dataChanges = 0

(* PollDevice asks for the next block of FC01, else FC02, FC03, FC04, and    *)
(* gives out the answer.                                                     *)
ReadBlock ==
  LET func   == Min({layout[p].func : p \in toRead})
      coils  == func \in {1, 2}
      block  == Block({p \in toRead : layout[p].func = func},
                      IF coils THEN MaxDiRead ELSE MaxAiRead)
      answer == IF coils THEN DispatchFC01or02(func, block) ELSE DispatchFC03or04(func, block)
  IN
  /\ toRead # {}
  /\ master' = [p \in Point |-> IF p \in DOMAIN answer THEN answer[p] ELSE master[p]]
  /\ toRead' = toRead \ block
  /\ UNCHANGED <<serial, layout, table, seen, dataChanges>>

ChangeData(p) ==
  /\ dataChanges < MaxDataChanges /\ toRead # {}
  /\ dataChanges' = dataChanges + 1
  /\ \E v \in Values(p) : table' = [table EXCEPT ![p] = v]
  /\ seen' = [seen EXCEPT ![p] = @ \cup {table'[p]}]
  /\ UNCHANGED <<serial, layout, master, toRead>>

RegistersNext == ReadBlock \/ \E p \in Point : ChangeData(p)
RegistersSpec == RegistersInit /\ [][RegistersNext]_registerVars

-----------------------------------------------------------------------------
(* Configurations that the masters read right.                               *)

(* What each point is; GHEFCDAB is not read back as it is sent.              *)
Described(l) ==
  /\ \A d \in Di : /\ l[d].func \in 1..4 /\ l[d].addr \in Nat /\ l[d].bit \in 0..15
                   /\ l[d].point \in Nat
                   /\ l[d].func \in {1, 2} => l[d].bit = 0
  /\ \A a \in Ai : /\ l[a].func \in {3, 4} /\ l[a].addr \in Nat /\ l[a].regs \in {1, 2, 4}
                   /\ l[a].endian \in Endians(l[a].regs) \ {"GHEFCDAB"}

(* Two points do not share a coil or a bit of a register; the TCP slave has  *)
(* the same registers for FC03 and FC04.                                     *)
Apart(l, s) ==
  \A p, q \in Point :
    p # q /\ (l[p].func = l[q].func \/ (~s /\ {l[p].func, l[q].func} \subseteq {3, 4})) =>
      \/ LastAddrOf(l, p) < l[q].addr \/ LastAddrOf(l, q) < l[p].addr
      \/ p \in Di /\ q \in Di /\ l[p].bit # l[q].bit

(* RTU: every point is loaded, numbers have one register, and no byte of     *)
(* coils that is answered reaches a point that has been read.                *)
SerialReadable(l) ==
  /\ \A p \in Point : Kept(l, p)
  /\ \A a \in Ai : l[a].regs = 1 /\ l[a].endian = "AB"
  /\ \A p \in Point : Coil(l, p) => l[p].addr + ByteBits <= AddrSpace
  /\ \A p, q \in Di : l[p].func = 1 /\ l[q].func = 2 => l[p].addr < l[q].addr

Readable(l, s) ==
  /\ Described(l) /\ Apart(l, s)
  /\ \A p \in Point : LastAddrOf(l, p) < AddrSpace - 1
  /\ s => SerialReadable(l)

(* After a poll the master has for every point a value that the slave's      *)
(* table held while the poll went on: no half of a number, no neighbour's    *)
(* bit, nothing lost between two blocks.                                     *)
ReadBack == toRead = {} => \A p \in Point : master[p] \in seen[p]
=============================================================================
