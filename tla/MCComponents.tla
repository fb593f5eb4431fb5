---------------------------- MODULE MCComponents ----------------------------
(* Four components that do not meet, for TLC: a behaviour is one of the      *)
(* component named by part, and the others rest in their first state.        *)
(*   "manager"    the module manager under changes of role, console, Stop;   *)
(*   "console"    the same, but the operator names the console itself        *)
(*   "pemp"       the PEMP server with connections that break                *)
(*   "serial"     a port of a Modbus RTU, DL/T 645, IEC 101 or 103 master   *)
(*   "registers"  a poll of a Modbus slave                                   *)
EXTENDS ModuleManager, SerialMaster, PempServer, ModbusRegisters, TLC

CONSTANTS s1, c1, c2

managerVars == vars

VARIABLE part

componentVars == <<part, managerVars, pempVars, serialVars, registerVars>>

-----------------------------------------------------------------------------
(* Layouts of two DI and two AI points, at both ends of blocks of three.     *)

CoilAt(f, a)    == [func |-> f, addr |-> a, bit |-> 0, point |-> 1]
BitAt(f, a, b)  == [func |-> f, addr |-> a, bit |-> b, point |-> 1]
Words(f, a, r, e) == [func |-> f, addr |-> a, regs |-> r, endian |-> e]
Layout(di, ai)  == ("d1" :> di[1]) @@ ("d2" :> di[2]) @@ ("a1" :> ai[1]) @@ ("a2" :> ai[2])

DiPairs ==
       {<<CoilAt(1, 0), CoilAt(1, a)>> : a \in {1, 2, 3}}
  \cup {<<CoilAt(1, 1), CoilAt(2, a)>> : a \in {1, 2}}
  \cup {<<CoilAt(2, 1), BitAt(3, a, b)>> : a \in {0, 3}, b \in {0, 9}}
  \cup {<<BitAt(3, 3, 0), BitAt(3, 3, 9)>>}

AiPairs(regs) == {<<Words(3, 1, regs, e), Words(f, a, 1, "BA")>> :
                    e \in Endians(regs) \ {"GHEFCDAB"}, f \in {3, 4}, a \in {regs + 1, 6} \ {3}}

TcpLayouts ==
       {Layout(di, ai) : di \in DiPairs, ai \in AiPairs(1) \cup AiPairs(2)}
  \cup {Layout(<<CoilAt(1, 0), CoilAt(1, 3)>>, ai) : ai \in AiPairs(4)}

(* Where the RTU master reads right: no byte of coils reaches the address of *)
(* another DI point, and no AI point has more than one register.             *)
RtuLayouts ==
  {Layout(di, <<Words(3, 1, 1, "AB"), Words(f, a, 1, "AB")>>) :
     di \in {<<CoilAt(1, 0), CoilAt(1, a2)>> : a2 \in {2, 3, 4}}
            \cup {<<CoilAt(1, 0), BitAt(3, 3, 9)>>, <<BitAt(4, 3, 0), BitAt(3, 3, 9)>>,
                  <<CoilAt(1, 0), CoilAt(2, 1)>>},
     f \in {3, 4}, a \in {2, 6}}

ASSUME LayoutsReadable ==
  /\ \A l \in TcpLayouts : Readable(l, FALSE)
  /\ \A l \in RtuLayouts : Readable(l, TRUE)

-----------------------------------------------------------------------------
Parts == {"manager", "console", "pemp", "serial", "registers"}
In(p) == part = p

(* What the operator names in this behaviour. *)
Named == IF In("console") THEN {Console} ELSE Targets \ {Console}

(* Outside its part no poll is begun. *)
ComponentsInit ==
  /\ part \in Parts
  /\ Init /\ PempInit
  /\ SerialInit /\ (In("serial") \/ (protocol = "rtu" /\ portUp))
  /\ IF In("registers") THEN RegistersInit
     ELSE /\ serial = FALSE /\ layout = <<>> /\ table = <<>> /\ seen = <<>>
          /\ master = <<>> /\ toRead = Point /\ dataChanges = 0

(* A poll that is over. *)
Rest == In("registers") /\ toRead = {} /\ UNCHANGED componentVars

ComponentsNext ==
  \/ /\ In("manager") \/ In("console")
     /\ Next /\ on["console"]' \in Named \cup {0}
     /\ UNCHANGED <<part, pempVars, serialVars, registerVars>>
  \/ /\ In("pemp") /\ PempNext
     /\ UNCHANGED <<part, managerVars, serialVars, registerVars>>
  \/ /\ In("serial") /\ SerialNext
     /\ UNCHANGED <<part, managerVars, pempVars, registerVars>>
  \/ /\ In("registers") /\ RegistersNext
     /\ UNCHANGED <<part, managerVars, pempVars, serialVars>>
  \/ Rest

ComponentsSpec == ComponentsInit /\ [][ComponentsNext]_componentVars

(* The entries of clientThreads_ are interchangeable. *)
Slots == Permutations({c1, c2})
=============================================================================
