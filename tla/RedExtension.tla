---------------------------- MODULE RedExtension ----------------------------
(***************************************************************************)
(* red_extension.c: detection of the RED Brick extensions at start-up.     *)
(* red_extension_init reads, for each of the EXTENSION_NUM_MAX positions,  *)
(* the type word and the type's configuration from the position's I2C     *)
(* EEPROM (first loop), then muxes the pins of every RS485 or Ethernet     *)
(* extension found and initialises it (second loop); red_extension_exit   *)
(* shuts the initialised extensions down.  One step is one iteration of a  *)
(* loop.  The EEPROM contents are the hardware: fixed in Init, any of a    *)
(* small set.                                                              *)
(***************************************************************************)
EXTENDS Naturals

CONSTANTS NumExt,      \* EXTENSION_NUM_MAX
          SlavesMax,   \* EXTENSION_RS485_SLAVES_MAX
          Unset        \* a field of base_config that was never written

ASSUME NumExtAssumption == NumExt \in Nat \ {0}
ASSUME SlavesMaxAssumption == SlavesMax \in Nat \ {0}
ASSUME UnsetAssumption == Unset \notin Nat

Positions == 0 .. NumExt - 1

\* ExtensionType; Other stands for any other word read from the EEPROM.
NONE == 0
CHIBI == 1
RS485 == 2
WIFI == 3
ETHERNET == 4
Other == 7
TypeWord == {NONE, CHIBI, RS485, WIFI, ETHERNET, Other}

\* Where red_extension_read_rs485_config first gets a short EEPROM read.
ReadStep == {"none", "address", "baudrate", "parity", "stopbits", "slave"}

\* The RS485 part of an EEPROM: the first failing read, the ADDRESS and the
\* BAUDRATE words, and the number of non-zero SLAVE ADDRESS words before the
\* first zero one (SlavesMax + 1: no zero among the first SlavesMax + 1).
Rs485Eeprom == [failAt : ReadStep, address : {0, 1}, baudrate : {7, 8},
                listed : 0 .. SlavesMax + 1]

\* One EEPROM: whether the type word can be read, the type word, the RS485
\* part and whether the Ethernet MAC address can be read.
NoRs485 == [failAt |-> "none", address |-> 0, baudrate |-> 8, listed |-> 0]
Eeprom ==
    {[typeRead |-> FALSE, type |-> NONE, rs485 |-> NoRs485, mac |-> FALSE]}
    \cup {[typeRead |-> TRUE, type |-> t, rs485 |-> NoRs485, mac |-> FALSE] :
            t \in {NONE, CHIBI, WIFI, Other}}
    \cup {[typeRead |-> TRUE, type |-> RS485, rs485 |-> r, mac |-> FALSE] :
            r \in Rs485Eeprom}
    \cup {[typeRead |-> TRUE, type |-> ETHERNET, rs485 |-> NoRs485, mac |-> m] :
            m \in BOOLEAN}

VARIABLES
    pc,          \* "detect", "configure", "done", "failed" (init returned -1), "exited"
    i,           \* the loop index of the current loop
    eeprom,      \* the EEPROM of each position (hardware, constant)
    baseType,    \* base_config[i].type
    cfgRead,     \* the return value of the config reader was 0
    slaveNum,    \* the slave_num field of the RS485 base_config
    opened,      \* positions whose i2c_eeprom_init succeeded and were not released
    initCalled,  \* positions passed to red_rs485/ethernet_extension_init
    extType      \* _red_extension_type

vars == <<pc, i, eeprom, baseType, cfgRead, slaveNum, opened, initCalled,
          extType>>

-----------------------------------------------------------------------------
(* red_extension_read_rs485_config: the return value and the slave_num it *)
(* leaves in the configuration.  The reads happen in the order ADDRESS,    *)
(* BAUDRATE (then the check >= 8), PARITY, STOPBITS, master check; slave_num *)
(* is written only in master mode, then one SLAVE ADDRESS word per slave   *)
(* until a zero word or EXTENSION_RS485_SLAVES_MAX slaves; a failing slave *)
(* read (here the first) returns -1 with slave_num already written.       *)
ReadRs485Config(r) ==
    IF r.failAt \in {"address", "baudrate"} \/ r.baudrate < 8
       \/ r.failAt \in {"parity", "stopbits"} \/ r.address # 0
    THEN [ok |-> FALSE, slaveNum |-> Unset]
    ELSE IF r.failAt = "slave" THEN [ok |-> FALSE, slaveNum |-> 0]
    ELSE [ok |-> TRUE,
          slaveNum |-> IF r.listed < SlavesMax THEN r.listed ELSE SlavesMax]

(* red_extension_init before its loops: all EEPROMs deselected, nothing   *)
(* found yet.                                                              *)
Init ==
    /\ pc = "detect"
    /\ i = 0
    /\ eeprom \in [Positions -> Eeprom]
    /\ baseType = [p \in Positions |-> Unset]
    /\ cfgRead = [p \in Positions |-> FALSE]
    /\ slaveNum = [p \in Positions |-> Unset]
    /\ opened = {}
    /\ initCalled = {}
    /\ extType = [p \in Positions |-> NONE]

(* Mutant of NextPos: the loop runs while i <= EXTENSION_NUM_MAX.          *)
NextPosOffByOne(next) ==
    IF i + 1 <= NumExt THEN i' = i + 1 /\ pc' = pc ELSE i' = 0 /\ pc' = next

(* The loop index after an iteration of a loop over the positions.        *)
NextPos(next) ==
    IF i + 1 < NumExt THEN i' = i + 1 /\ pc' = pc ELSE i' = 0 /\ pc' = next

(* Mutant of Detect: base_config[i].type is not reset to NONE (line 239), *)
(* so an unreadable EEPROM leaves whatever the stack held in it.           *)
DetectNoReset ==
    /\ pc = "detect"
    /\ \E eepromInit \in BOOLEAN, garbage \in TypeWord :
         IF ~eepromInit
         THEN /\ pc' = "failed"
              /\ baseType' = [baseType EXCEPT ![i] = NONE]
              /\ UNCHANGED <<i, cfgRead, slaveNum, opened>>
         ELSE LET e == eeprom[i]
                  t == IF e.typeRead THEN e.type ELSE NONE
                  rs == ReadRs485Config(e.rs485)
              IN /\ baseType' = [baseType EXCEPT ![i] = IF e.typeRead THEN t ELSE garbage]
                 /\ CASE t = RS485 ->
                           /\ cfgRead' = [cfgRead EXCEPT ![i] = rs.ok]
                           /\ slaveNum' = [slaveNum EXCEPT ![i] = rs.slaveNum]
                           /\ UNCHANGED opened
                      [] t = ETHERNET ->
                           /\ cfgRead' = [cfgRead EXCEPT ![i] = e.mac]
                           /\ UNCHANGED <<slaveNum, opened>>
                      [] OTHER ->
                           /\ opened' = opened \cup {i}
                           /\ UNCHANGED <<cfgRead, slaveNum>>
                 /\ NextPos("configure")
    /\ UNCHANGED <<eeprom, initCalled, extType>>

(* One iteration of the first loop for position i: i2c_eeprom_init (its   *)
(* failure makes red_extension_init return -1), the type word, and for     *)
(* RS485 and Ethernet the configuration, after which the EEPROM is         *)
(* released whatever the reader returned.  The continue paths (no type     *)
(* word, type NONE, unsupported type) leave the EEPROM open, and a failed  *)
(* configuration read leaves base_config[i].type as it is.                 *)
Detect ==
    /\ pc = "detect"
    /\ \E eepromInit \in BOOLEAN :
         IF ~eepromInit
         THEN /\ pc' = "failed"
              /\ baseType' = [baseType EXCEPT ![i] = NONE]
              /\ UNCHANGED <<i, cfgRead, slaveNum, opened>>
         ELSE LET e == eeprom[i]
                  t == IF e.typeRead THEN e.type ELSE NONE
                  rs == ReadRs485Config(e.rs485)
              IN /\ baseType' = [baseType EXCEPT ![i] = t]
                 /\ CASE t = RS485 ->
                           /\ cfgRead' = [cfgRead EXCEPT ![i] = rs.ok]
                           /\ slaveNum' = [slaveNum EXCEPT ![i] = rs.slaveNum]
                           /\ UNCHANGED opened
                      [] t = ETHERNET ->
                           /\ cfgRead' = [cfgRead EXCEPT ![i] = e.mac]
                           /\ UNCHANGED <<slaveNum, opened>>
                      [] OTHER ->
                           /\ opened' = opened \cup {i}
                           /\ UNCHANGED <<cfgRead, slaveNum>>
                 /\ NextPos("configure")
    /\ UNCHANGED <<eeprom, initCalled, extType>>

(* One iteration of the second loop: an RS485 or Ethernet base_config is  *)
(* passed to its extension's init; on success the type is recorded.       *)
Configure ==
    /\ pc = "configure"
    /\ IF baseType[i] \in {RS485, ETHERNET}
       THEN /\ initCalled' = initCalled \cup {i}
            /\ \E ok \in BOOLEAN :
                 extType' = IF ok THEN [extType EXCEPT ![i] = baseType[i]] ELSE extType
       ELSE UNCHANGED <<initCalled, extType>>
    /\ NextPos("done")
    /\ UNCHANGED <<eeprom, baseType, cfgRead, slaveNum, opened>>

(* red_extension_exit: every recorded extension is shut down and its type *)
(* reset to NONE.                                                           *)
Exit ==
    /\ pc = "done"
    /\ pc' = "exited"
    /\ extType' = [p \in Positions |-> NONE]
    /\ UNCHANGED <<i, eeprom, baseType, cfgRead, slaveNum, opened, initCalled>>

Next == Detect \/ Configure \/ Exit

Spec == Init /\ [][Next]_vars

-----------------------------------------------------------------------------
ExtTypeOK ==
    /\ pc \in {"detect", "configure", "done", "failed", "exited"}
    /\ i \in Positions
    /\ eeprom \in [Positions -> Eeprom]
    /\ baseType \in [Positions -> TypeWord \cup {Unset}]
    /\ cfgRead \in [Positions -> BOOLEAN]
    /\ slaveNum \in [Positions -> Nat \cup {Unset}]
    /\ opened \subseteq Positions
    /\ initCalled \subseteq Positions
    /\ extType \in [Positions -> {NONE, RS485, ETHERNET}]

(* An extension is recorded in _red_extension_type only with the type its *)
(* own EEPROM reports, and only after red_extension_init passed its        *)
(* position to the extension's init: no type word left over from an       *)
(* unreadable EEPROM or from another position.                              *)
ConfiguredFromEeprom ==
    \A p \in Positions :
        extType[p] # NONE =>
            /\ eeprom[p].typeRead
            /\ extType[p] = eeprom[p].type
            /\ p \in initCalled

(* The log messages at lines 275 and 286 say an extension whose           *)
(* configuration could not be read is ignored: its init is never called.   *)
InitOnlyWithConfig == \A p \in initCalled : cfgRead[p]

(* Spec 6: an EEPROM opened with i2c_eeprom_init is released with        *)
(* i2c_eeprom_release, as the RS485 and Ethernet paths do (lines 272,     *)
(* 283): once the detection loop is over or has returned, no EEPROM is    *)
(* left open.                                                               *)
EepromReleased == pc # "detect" => opened = {}

=============================================================================
