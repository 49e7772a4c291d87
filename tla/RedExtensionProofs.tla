--------------------------- MODULE RedExtensionProofs ---------------------------
(***************************************************************************)
(* Proofs about RedExtension for every number of positions and every      *)
(* EXTENSION_RS485_SLAVES_MAX: the type invariant, and that an extension   *)
(* is only recorded with the type its own EEPROM reports                    *)
(* (ConfiguredFromEeprom), through the inductive invariant ExtInv.          *)
(***************************************************************************)
EXTENDS RedExtension, TLAPS

USE NumExtAssumption, SlavesMaxAssumption, UnsetAssumption

(* ConfiguredFromEeprom is not inductive: it says nothing of base_config,  *)
(* which the second loop copies into _red_extension_type.  The first loop  *)
(* writes into base_config[i].type only the EEPROM's own type word, or     *)
(* NONE, so an RS485 or Ethernet type there came from that EEPROM.         *)
BaseFromEeprom ==
    \A p \in Positions :
        baseType[p] \in {RS485, ETHERNET} =>
            eeprom[p].typeRead /\ baseType[p] = eeprom[p].type

ExtInv == ExtTypeOK /\ BaseFromEeprom /\ ConfiguredFromEeprom

-----------------------------------------------------------------------------
(* What an EEPROM can hold: a type word, an RS485 part and a MAC flag.    *)
LEMMA EepromFacts ==
    ASSUME NEW e \in Eeprom
    PROVE  /\ e.typeRead \in BOOLEAN
           /\ e.type \in TypeWord
           /\ e.rs485 \in Rs485Eeprom \cup {NoRs485}
           /\ e.mac \in BOOLEAN
<1> DEFINE Facts(x) == /\ x.typeRead \in BOOLEAN
                       /\ x.type \in TypeWord
                       /\ x.rs485 \in Rs485Eeprom \cup {NoRs485}
                       /\ x.mac \in BOOLEAN
<1>1. CASE e = [typeRead |-> FALSE, type |-> NONE, rs485 |-> NoRs485, mac |-> FALSE]
  BY <1>1 DEF TypeWord
<1>2. ASSUME NEW t \in {NONE, CHIBI, WIFI, Other},
             e = [typeRead |-> TRUE, type |-> t, rs485 |-> NoRs485, mac |-> FALSE]
      PROVE  Facts(e)
  BY <1>2 DEF TypeWord
<1>3. ASSUME NEW r \in Rs485Eeprom,
             e = [typeRead |-> TRUE, type |-> RS485, rs485 |-> r, mac |-> FALSE]
      PROVE  Facts(e)
  BY <1>3 DEF TypeWord
<1>4. ASSUME NEW m \in BOOLEAN,
             e = [typeRead |-> TRUE, type |-> ETHERNET, rs485 |-> NoRs485, mac |-> m]
      PROVE  Facts(e)
  BY <1>4 DEF TypeWord
<1> QED  BY <1>1, <1>2, <1>3, <1>4, Zenon DEF Eeprom

(* red_extension_read_rs485_config returns 0 or -1, and leaves slave_num  *)
(* unwritten or a count of slave address words.                           *)
LEMMA ReadRs485ConfigFacts ==
    ASSUME NEW r \in Rs485Eeprom \cup {NoRs485}
    PROVE  /\ ReadRs485Config(r).ok \in BOOLEAN
           /\ ReadRs485Config(r).slaveNum \in Nat \cup {Unset}
<1>1. r.listed \in Nat
  BY DEF Rs485Eeprom, NoRs485
<1> QED  BY <1>1 DEF ReadRs485Config

(* The loop index stays a position and pc a label of the two loops.       *)
LEMMA NextPosType ==
    ASSUME i \in Positions, NEW next, NextPos(next)
    PROVE  i' \in Positions /\ pc' \in {pc, next}
BY DEF NextPos, Positions

(* One iteration of the first loop keeps the invariant: base_config[i]    *)
(* gets NONE or the EEPROM's own type word.                               *)
LEMMA DetectInv == ExtInv /\ Detect => ExtInv'
<1> SUFFICES ASSUME ExtInv, Detect PROVE ExtInv'
  OBVIOUS
<1>0. /\ pc = "detect"
      /\ i \in Positions
      /\ UNCHANGED <<eeprom, initCalled, extType>>
      /\ eeprom[i] \in Eeprom
  BY DEF Detect, ExtInv, ExtTypeOK
<1>p. PICK eepromInit \in BOOLEAN :
        IF ~eepromInit
        THEN /\ pc' = "failed"
             /\ baseType' = [baseType EXCEPT ![i] = NONE]
             /\ UNCHANGED <<i, cfgRead, slaveNum, opened>>
        ELSE LET e == eeprom[i]
                 t == IF e.typeRead THEN e.type ELSE NONE
                 rs == ReadRs485Config(e.rs485)
             IN /\ baseType' = [baseType EXCEPT ![i] = t]
                /\ CASE t = RS485 ->
                          /\ cfgRead' = [cfgRead EXCEPT ![i] = rs.ok]
                          /\ slaveNum' = [slaveNum EXCEPT ![i] = rs.slaveNum]
                          /\ UNCHANGED opened
                     [] t = ETHERNET ->
                          /\ cfgRead' = [cfgRead EXCEPT ![i] = e.mac]
                          /\ UNCHANGED <<slaveNum, opened>>
                     [] OTHER ->
                          /\ opened' = opened \cup {i}
                          /\ UNCHANGED <<cfgRead, slaveNum>>
                /\ NextPos("configure")
  BY DEF Detect
<1>1. CASE ~eepromInit
  <2>1. /\ pc' = "failed"
        /\ baseType' = [baseType EXCEPT ![i] = NONE]
        /\ UNCHANGED <<i, cfgRead, slaveNum, opened>>
    BY <1>p, <1>1
  <2> QED  BY <1>0, <2>1 DEF ExtInv, ExtTypeOK, BaseFromEeprom, ConfiguredFromEeprom,
                            TypeWord, NONE, RS485, ETHERNET
<1>2. CASE eepromInit
  <2> DEFINE e == eeprom[i]
             t == IF e.typeRead THEN e.type ELSE NONE
  <2>0. /\ e.typeRead \in BOOLEAN
        /\ e.type \in TypeWord
        /\ e.rs485 \in Rs485Eeprom \cup {NoRs485}
        /\ e.mac \in BOOLEAN
    BY <1>0, EepromFacts
  <2>r. PICK ok, n : ok = ReadRs485Config(e.rs485).ok /\ n = ReadRs485Config(e.rs485).slaveNum
    OBVIOUS
  <2>1. ok \in BOOLEAN /\ n \in Nat \cup {Unset}
    BY <2>0, <2>r, ReadRs485ConfigFacts
  <2>2. /\ baseType' = [baseType EXCEPT ![i] = t]
        /\ NextPos("configure")
        /\ t = RS485 => /\ cfgRead' = [cfgRead EXCEPT ![i] = ok]
                        /\ slaveNum' = [slaveNum EXCEPT ![i] = n]
                        /\ UNCHANGED opened
        /\ t = ETHERNET => /\ cfgRead' = [cfgRead EXCEPT ![i] = e.mac]
                           /\ UNCHANGED <<slaveNum, opened>>
        /\ t \notin {RS485, ETHERNET} => /\ opened' = opened \cup {i}
                                         /\ UNCHANGED <<cfgRead, slaveNum>>
    <3>0. RS485 # ETHERNET
      BY DEF RS485, ETHERNET
    <3>1. /\ baseType' = [baseType EXCEPT ![i] = t]
          /\ NextPos("configure")
          /\ CASE t = RS485 ->
                   /\ cfgRead' = [cfgRead EXCEPT ![i] = ok]
                   /\ slaveNum' = [slaveNum EXCEPT ![i] = n]
                   /\ UNCHANGED opened
              [] t = ETHERNET ->
                   /\ cfgRead' = [cfgRead EXCEPT ![i] = e.mac]
                   /\ UNCHANGED <<slaveNum, opened>>
              [] OTHER ->
                   /\ opened' = opened \cup {i}
                   /\ UNCHANGED <<cfgRead, slaveNum>>
      BY <1>p, <1>2, <2>r, Zenon
    <3>2. t = RS485 => /\ cfgRead' = [cfgRead EXCEPT ![i] = ok]
                       /\ slaveNum' = [slaveNum EXCEPT ![i] = n]
                       /\ UNCHANGED opened
      <4> SUFFICES ASSUME t = RS485
                   PROVE  /\ cfgRead' = [cfgRead EXCEPT ![i] = ok]
                          /\ slaveNum' = [slaveNum EXCEPT ![i] = n]
                          /\ UNCHANGED opened
        OBVIOUS
      <4>1. t # ETHERNET
        BY <3>0
      <4> QED  BY <3>1, <4>1, Zenon
    <3>3. t = ETHERNET => /\ cfgRead' = [cfgRead EXCEPT ![i] = e.mac]
                          /\ UNCHANGED <<slaveNum, opened>>
      <4> SUFFICES ASSUME t = ETHERNET
                   PROVE  /\ cfgRead' = [cfgRead EXCEPT ![i] = e.mac]
                          /\ UNCHANGED <<slaveNum, opened>>
        OBVIOUS
      <4>1. t # RS485
        BY <3>0
      <4> QED  BY <3>1, <4>1, Zenon
    <3>4. t \notin {RS485, ETHERNET} => /\ opened' = opened \cup {i}
                                        /\ UNCHANGED <<cfgRead, slaveNum>>
      BY <3>1
    <3> QED  BY <3>1, <3>2, <3>3, <3>4
  <2>3. /\ t \in TypeWord
        /\ t \in {RS485, ETHERNET} => e.typeRead /\ t = e.type
    BY <2>0 DEF TypeWord, NONE, RS485, ETHERNET
  <2>4. i' \in Positions /\ pc' \in {"detect", "configure"}
    BY <1>0, <2>2, NextPosType
  <2>5. ExtTypeOK'
    BY <1>0, <2>0, <2>1, <2>2, <2>3, <2>4 DEF ExtInv, ExtTypeOK, TypeWord, RS485, ETHERNET
  <2>6. BaseFromEeprom'
    BY <1>0, <2>2, <2>3 DEF ExtInv, BaseFromEeprom
  <2>7. ConfiguredFromEeprom'
    BY <1>0 DEF ExtInv, ConfiguredFromEeprom
  <2> QED  BY <2>5, <2>6, <2>7 DEF ExtInv
<1> QED  BY <1>1, <1>2

(* One iteration of the second loop: a type recorded in                    *)
(* _red_extension_type is copied from base_config[i], which came from      *)
(* position i's EEPROM, and i has been passed to the extension's init.    *)
LEMMA ConfigureInv == ExtInv /\ Configure => ExtInv'
<1> SUFFICES ASSUME ExtInv, Configure PROVE ExtInv'
  OBVIOUS
<1>0. /\ i \in Positions
      /\ NextPos("done")
      /\ pc = "configure"
      /\ UNCHANGED <<eeprom, baseType, cfgRead, slaveNum, opened>>
  BY DEF Configure, ExtInv, ExtTypeOK
<1>1. i' \in Positions /\ pc' \in {"configure", "done"}
  BY <1>0, NextPosType
<1>2. CASE baseType[i] \in {RS485, ETHERNET}
  <2>1. /\ initCalled' = initCalled \cup {i}
        /\ \/ extType' = [extType EXCEPT ![i] = baseType[i]]
           \/ extType' = extType
    BY <1>2 DEF Configure
  <2>2. eeprom[i].typeRead /\ baseType[i] = eeprom[i].type
    BY <1>0, <1>2 DEF ExtInv, BaseFromEeprom
  <2>3. ExtTypeOK'
    BY <1>0, <1>1, <1>2, <2>1 DEF ExtInv, ExtTypeOK
  <2>4. ConfiguredFromEeprom'
    BY <1>0, <1>2, <2>1, <2>2 DEF ExtInv, ExtTypeOK, ConfiguredFromEeprom
  <2> QED  BY <1>0, <2>3, <2>4 DEF ExtInv, BaseFromEeprom
<1>3. CASE baseType[i] \notin {RS485, ETHERNET}
  <2>1. UNCHANGED <<initCalled, extType>>
    BY <1>3 DEF Configure
  <2> QED  BY <1>0, <1>1, <2>1 DEF ExtInv, ExtTypeOK, BaseFromEeprom,
                                  ConfiguredFromEeprom
<1> QED  BY <1>2, <1>3

(* red_extension_exit resets every recorded type to NONE.                  *)
LEMMA ExitInv == ExtInv /\ Exit => ExtInv'
BY DEF ExtInv, Exit, ExtTypeOK, BaseFromEeprom, ConfiguredFromEeprom

(* Every step of red_extension_init and red_extension_exit keeps ExtInv.  *)
LEMMA ExtInvStep == ExtInv /\ [Next]_vars => ExtInv'
BY DetectInv, ConfigureInv, ExitInv
   DEF Next, vars, ExtInv, ExtTypeOK, BaseFromEeprom, ConfiguredFromEeprom

(* Before the loops no base_config type is written (it is never an         *)
(* extension type) and no extension is recorded.                           *)
LEMMA ExtInvInit == Init => ExtInv
<1> SUFFICES ASSUME Init PROVE ExtInv
  OBVIOUS
<1>1. Unset \notin TypeWord /\ Unset \notin {RS485, ETHERNET}
  BY DEF TypeWord, NONE, CHIBI, RS485, WIFI, ETHERNET, Other
<1> QED  BY <1>1 DEF Init, ExtInv, ExtTypeOK, Positions, BaseFromEeprom,
                    ConfiguredFromEeprom, NONE, RS485, ETHERNET

-----------------------------------------------------------------------------
(* Every variable of the detection stays in its range, for every number   *)
(* of positions and slave array size.                                      *)
THEOREM ExtTypeCorrect == Spec => []ExtTypeOK
<1>1. ExtInv => ExtTypeOK
  BY DEF ExtInv
<1> QED  BY ExtInvInit, ExtInvStep, <1>1, PTL DEF Spec

(* Whatever the EEPROMs hold and whichever reads and inits fail, an        *)
(* extension is recorded only with its own EEPROM's type word and only    *)
(* after red_extension_init passed its position to the extension's init.  *)
THEOREM ConfiguredFromEepromCorrect == Spec => []ConfiguredFromEeprom
<1>1. ExtInv => ConfiguredFromEeprom
  BY DEF ExtInv
<1> QED  BY ExtInvInit, ExtInvStep, <1>1, PTL DEF Spec
=============================================================================
