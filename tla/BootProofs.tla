----------------------------- MODULE BootProofs -----------------------------
(***************************************************************************)
(* Proofs about Boot, for every static address, every set of calls and      *)
(* every set of addresses that a controller may assign.                     *)
(***************************************************************************)
EXTENDS Boot, TLAPS, FiniteSetTheorems, SequenceTheorems

(***************************************************************************)
(* Fields of a register.                                                    *)
(***************************************************************************)

\* Field n of register r is plain storage, and no other field has its bits.
Alone(r, n) ==
    /\ n \in DOMAIN r.fields \ wset
    /\ r.fields[n].low \in Nat /\ r.fields[n].bits \subseteq WordBits
    /\ r.fields[n].sw = "rw" /\ ~r.fields[n].woclr /\ ~r.fields[n].rclr
    /\ \A m \in DOMAIN r.fields \ {n} : r.fields[m].bits \intersect r.fields[n].bits = {}

\* What the hardware writes stays inside the fields.
HwFits(r, hw) == \A m \in DOMAIN r.fields \intersect DOMAIN hw : hw[m] \subseteq r.fields[m].bits

\* The value data fits into field f.
Fits(f, data) == data \subseteq Int /\ Place(f, data) \subseteq f.bits

\* The part of the next word that lies in a field is the field's next value.
LEMMA OwnBits ==
    ASSUME NEW r, NEW n, NEW v, NEW a, NEW hw, Alone(r, n), HwFits(r, hw)
    PROVE  RegNext(r, v, a, hw) \intersect r.fields[n].bits = FieldNext(r, n, v, a, hw)
<1>1. \A m \in DOMAIN r.fields : FieldNext(r, m, v, a, hw) \subseteq r.fields[m].bits
  BY DEF FieldNext, HwFits
<1>2. \A b : b \in RegNext(r, v, a, hw)
              <=> \E m \in DOMAIN r.fields : b \in FieldNext(r, m, v, a, hw)
  BY DEF RegNext
<1> QED
  BY <1>1, <1>2 DEF Alone

\* A field that nobody writes keeps its value.
LEMMA Kept ==
    ASSUME NEW r, NEW n, NEW v, NEW a, NEW hw, Alone(r, n), HwFits(r, hw),
           a.op # "write", n \notin DOMAIN hw
    PROVE  FieldOf(r.fields[n], RegNext(r, v, a, hw)) = FieldOf(r.fields[n], v)
<1>1. FieldNext(r, n, v, a, hw) = v \intersect r.fields[n].bits
  BY DEF FieldNext, Alone
<1> QED
  BY <1>1, OwnBits DEF FieldOf

\* A write of the software wins, and takes effect.
LEMMA Written ==
    ASSUME NEW r, NEW n, NEW v, NEW w, NEW hw, Alone(r, n), HwFits(r, hw)
    PROVE  FieldOf(r.fields[n], RegNext(r, v, Write(w), hw)) = FieldOf(r.fields[n], w)
<1>1. FieldNext(r, n, v, Write(w), hw) = w \intersect r.fields[n].bits
  BY DEF FieldNext, Alone, Write
<1> QED
  BY <1>1, OwnBits DEF FieldOf

\* So does a write of the hardware when the software does not write.
LEMMA Driven ==
    ASSUME NEW r, NEW n, NEW v, NEW a, NEW hw, Alone(r, n), HwFits(r, hw),
           a.op # "write", n \in DOMAIN hw
    PROVE  FieldOf(r.fields[n], RegNext(r, v, a, hw)) = FieldOf(r.fields[n], hw[n])
<1>1. FieldNext(r, n, v, a, hw) = hw[n]
  BY DEF FieldNext, Alone
<1>2. hw[n] \subseteq r.fields[n].bits
  BY DEF HwFits, Alone
<1> QED
  BY <1>1, <1>2, OwnBits DEF FieldOf

\* Place and FieldOf are inverse.
LEMMA Placed ==
    ASSUME NEW f, f.low \in Nat, NEW data, Fits(f, data)
    PROVE  FieldOf(f, Place(f, data)) = data
<1>1. ASSUME NEW c \in data
      PROVE  c \in FieldOf(f, Place(f, data))
  <2>1. c + f.low \in Place(f, data)
    BY DEF Place
  <2>2. c + f.low \in f.bits
    BY <2>1 DEF Fits
  <2>3. c = (c + f.low) - f.low
    <3>1. c \in Int /\ f.low \in Int
      BY DEF Fits
    <3> QED
      BY <3>1
  <2> QED
    BY <2>1, <2>2, <2>3 DEF FieldOf
<1>2. ASSUME NEW x \in FieldOf(f, Place(f, data))
      PROVE  x \in data
  <2>1. PICK b \in Place(f, data) : x = b - f.low
    BY DEF FieldOf
  <2>2. PICK c \in data : b = c + f.low
    BY DEF Place
  <2> QED
    BY <2>1, <2>2 DEF Fits
<1> QED
  BY <1>1, <1>2

\* write_csr_field changes its field and no other.
LEMMA FieldSet ==
    ASSUME NEW r, NEW n, NEW w, NEW data, Alone(r, n), Fits(r.fields[n], data)
    PROVE  FieldOf(r.fields[n], Bytes(WithField(r.fields[n], w, data))) = data
<1> DEFINE f == r.fields[n]
<1>1. /\ Bytes(WithField(f, w, data)) \intersect f.bits
           = Place(f, data) \intersect f.bits
      /\ f.low \in Nat
  BY DEF Alone, Fits, WithField, Bytes
<1> QED
  BY <1>1, Placed DEF FieldOf

LEMMA FieldSpared ==
    ASSUME NEW r, NEW n, NEW m, NEW w, NEW data, Alone(r, n),
           m \in DOMAIN r.fields \ {n}, Fits(r.fields[m], data)
    PROVE  FieldOf(r.fields[n], Bytes(WithField(r.fields[m], w, data)))
             = FieldOf(r.fields[n], w)
<1>1. Bytes(WithField(r.fields[m], w, data)) \intersect r.fields[n].bits
        = w \intersect r.fields[n].bits
  BY DEF Alone, Fits, WithField, Bytes
<1> QED
  BY <1>1 DEF FieldOf

\* A read shows every such field.
LEMMA Shown ==
    ASSUME NEW r, NEW n, NEW v, Alone(r, n)
    PROVE  FieldOf(r.fields[n], ReadData(r, v)) = FieldOf(r.fields[n], v)
<1>1. ReadData(r, v) \intersect r.fields[n].bits = v \intersect r.fields[n].bits
  <2>1. n \in {m \in DOMAIN r.fields : r.fields[m].sw # "w"}
    BY DEF Alone
  <2> QED
    BY <2>1 DEF ReadData
<1> QED
  BY <1>1 DEF FieldOf

-----------------------------------------------------------------------------
(***************************************************************************)
(* The registers of the boot.                                               *)
(***************************************************************************)

AddrFields(d) == {Static(d), StaticValid(d), Dynamic(d), DynamicValid(d)}
ControlFields == {"STBY_CR_ENABLE_INIT", "TARGET_XACT_ENABLE"}

\* The layout of the address registers.
LEMMA DeviceFields ==
    ASSUME NEW d \in Devices
    PROVE  /\ d \in DOMAIN Regs /\ d # "CONTROL"
           /\ DOMAIN Regs[d].fields = AddrFields(d)
           /\ Regs[d].fields[Static(d)] = Field(0, 6, 0, "rw", "rw")
           /\ Regs[d].fields[StaticValid(d)] = Field(15, 15, 0, "rw", "rw")
           /\ Regs[d].fields[Dynamic(d)] = Field(16, 22, 0, "rw", "rw")
           /\ Regs[d].fields[DynamicValid(d)] = Field(31, 31, 0, "rw", "rw")
           /\ Static(d) # StaticValid(d) /\ Static(d) # Dynamic(d)
           /\ Static(d) # DynamicValid(d) /\ StaticValid(d) # Dynamic(d)
           /\ StaticValid(d) # DynamicValid(d) /\ Dynamic(d) # DynamicValid(d)
           /\ None \notin AddrFields(d)
<1>1. CASE d = "main"
  BY <1>1 DEF Regs, STBY_CR_DEVICE_ADDR, Csr, AddrFields, Static, StaticValid, Dynamic,
              DynamicValid, None
<1>2. CASE d = "virt"
  BY <1>2 DEF Regs, STBY_CR_VIRT_DEVICE_ADDR, Csr, AddrFields, Static, StaticValid,
              Dynamic, DynamicValid, None
<1> QED
  BY <1>1, <1>2 DEF Devices

LEMMA DeviceAlone ==
    ASSUME NEW d \in Devices, NEW n \in AddrFields(d)
    PROVE  Alone(Regs[d], n)
<1>1. n \notin wset
  BY DEF AddrFields, Devices, Static, StaticValid, Dynamic, DynamicValid, wset
<1>2. /\ Regs[d].fields[n].low \in Nat /\ Regs[d].fields[n].bits \subseteq WordBits
      /\ Regs[d].fields[n].sw = "rw"
      /\ ~Regs[d].fields[n].woclr /\ ~Regs[d].fields[n].rclr
  BY DeviceFields DEF AddrFields, Field, WordBits
<1>3. ASSUME NEW m \in AddrFields(d) \ {n}
      PROVE  Regs[d].fields[m].bits \intersect Regs[d].fields[n].bits = {}
  <2>1. /\ Regs[d].fields[Static(d)].bits = 0 .. 6
        /\ Regs[d].fields[StaticValid(d)].bits = 15 .. 15
        /\ Regs[d].fields[Dynamic(d)].bits = 16 .. 22
        /\ Regs[d].fields[DynamicValid(d)].bits = 31 .. 31
    BY DeviceFields DEF Field
  <2> QED
    BY <2>1 DEF AddrFields
<1> QED
  BY <1>1, <1>2, <1>3, DeviceFields DEF Alone

LEMMA ControlAlone ==
    ASSUME NEW n \in ControlFields
    PROVE  /\ Alone(Regs["CONTROL"], n) /\ n \notin TiedLow /\ n # None
           /\ "CONTROL" \in DOMAIN Regs
<1> DEFINE r == Regs["CONTROL"]
<1>1. r = STBY_CR_CONTROL /\ "CONTROL" \in DOMAIN Regs /\ n # None /\ n \notin TiedLow
  BY DEF Regs, ControlFields, TiedLow, None
<1>2. n \in DOMAIN r.fields \ wset
  BY <1>1 DEF STBY_CR_CONTROL, Csr, ControlFields, wset
<1>3. /\ r.fields[n].low \in Nat /\ r.fields[n].bits \subseteq WordBits
      /\ r.fields[n].sw = "rw"
      /\ ~r.fields[n].woclr /\ ~r.fields[n].rclr
  BY <1>1 DEF STBY_CR_CONTROL, Csr, ControlFields, Field, WordBits
<1>4. r.fields["STBY_CR_ENABLE_INIT"].bits = 30 .. 31
      /\ r.fields["TARGET_XACT_ENABLE"].bits = 12 .. 12
  BY <1>1 DEF STBY_CR_CONTROL, Csr, Field
<1>5. ASSUME NEW m \in DOMAIN r.fields \ ControlFields
      PROVE  /\ r.fields[m].bits \intersect (30 .. 31) = {}
             /\ r.fields[m].bits \intersect (12 .. 12) = {}
  <2>1. m \in {"PENDING_RX_NACK", "HANDOFF_DELAY_NACK", "ACR_FSM_OP_SELECT",
               "PRIME_ACCEPT_GETACCCR", "HANDOFF_DEEP_SLEEP", "CR_REQUEST_SEND",
               "BAST_CCC_IBI_RING", "DAA_SETAASA_ENABLE", "DAA_SETDASA_ENABLE",
               "DAA_ENTDAA_ENABLE", "RSTACT_DEFBYTE_02"}
    BY <1>1 DEF STBY_CR_CONTROL, Csr, ControlFields
  <2>2. /\ r.fields["PENDING_RX_NACK"].bits = 0 .. 0
        /\ r.fields["HANDOFF_DELAY_NACK"].bits = 1 .. 1
        /\ r.fields["ACR_FSM_OP_SELECT"].bits = 2 .. 2
        /\ r.fields["PRIME_ACCEPT_GETACCCR"].bits = 3 .. 3
        /\ r.fields["CR_REQUEST_SEND"].bits = 5 .. 5
    BY <1>1, SMTT(40) DEF STBY_CR_CONTROL, Csr, Field
  <2>2a. /\ r.fields["BAST_CCC_IBI_RING"].bits = 8 .. 10
         /\ r.fields["DAA_SETAASA_ENABLE"].bits = 13 .. 13
         /\ r.fields["DAA_SETDASA_ENABLE"].bits = 14 .. 14
         /\ r.fields["DAA_ENTDAA_ENABLE"].bits = 15 .. 15
         /\ r.fields["RSTACT_DEFBYTE_02"].bits = 20 .. 20
    BY <1>1, SMTT(40) DEF STBY_CR_CONTROL, Csr, Field
  <2>3. r.fields["HANDOFF_DEEP_SLEEP"].bits = 4 .. 4
    <3>1. r.fields["HANDOFF_DEEP_SLEEP"] = hwclr(Field(4, 4, 0, "rw", "rw"))
      BY <1>1 DEF STBY_CR_CONTROL, Csr
    <3> QED
      BY <3>1 DEF hwclr, Field
  <2> HIDE DEF r
  <2>4. r.fields[m].bits \subseteq (0 .. 10) \union (13 .. 20)
    BY <2>1, <2>2, <2>2a, <2>3
  <2> QED
    BY <2>4
<1>6. ASSUME NEW m \in DOMAIN r.fields \ {n}
      PROVE  r.fields[m].bits \intersect r.fields[n].bits = {}
  BY <1>4, <1>5 DEF ControlFields
<1> QED
  BY <1>1, <1>2, <1>3, <1>6 DEF Alone

\* What fits into the fields that the software writes.
LEMMA WritesFit ==
    /\ Fits(Regs["CONTROL"].fields["STBY_CR_ENABLE_INIT"], {1})
    /\ Fits(Regs["CONTROL"].fields["TARGET_XACT_ENABLE"], One)
    /\ \A d \in Devices :
          /\ \A a \in SUBSET (0 .. 6) : /\ Fits(Regs[d].fields[Static(d)], a)
                                      /\ Fits(Regs[d].fields[Dynamic(d)], a)
          /\ Fits(Regs[d].fields[StaticValid(d)], One)
          /\ Fits(Regs[d].fields[DynamicValid(d)], One)
<1>1. Fits(Regs["CONTROL"].fields["STBY_CR_ENABLE_INIT"], {1})
  <2>1. Regs["CONTROL"].fields["STBY_CR_ENABLE_INIT"] = Field(30, 31, 0, "rw", "r")
    BY DEF Regs, STBY_CR_CONTROL, Csr
  <2> QED
    BY <2>1 DEF Fits, Place, Field
<1>2. Fits(Regs["CONTROL"].fields["TARGET_XACT_ENABLE"], One)
  <2>1. Regs["CONTROL"].fields["TARGET_XACT_ENABLE"] = Field(12, 12, 1, "rw", "rw")
    BY DEF Regs, STBY_CR_CONTROL, Csr
  <2> QED
    BY <2>1 DEF Fits, Place, Field, One
<1>3. ASSUME NEW d \in Devices, NEW a \in SUBSET (0 .. 6)
      PROVE  Fits(Regs[d].fields[Static(d)], a) /\ Fits(Regs[d].fields[Dynamic(d)], a)
  BY DeviceFields DEF Fits, Place, Field
<1>4. ASSUME NEW d \in Devices
      PROVE  Fits(Regs[d].fields[StaticValid(d)], One)
             /\ Fits(Regs[d].fields[DynamicValid(d)], One)
  BY DeviceFields DEF Fits, Place, Field, One
<1> QED
  BY <1>1, <1>2, <1>3, <1>4

\* The values that the fields can have.
LEMMA FieldRange ==
    ASSUME NEW d \in Devices, NEW w
    PROVE  /\ FieldOf(Regs[d].fields[Static(d)], w) \in SUBSET (0 .. 6)
           /\ FieldOf(Regs[d].fields[Dynamic(d)], w) \in SUBSET (0 .. 6)
BY DeviceFields DEF FieldOf, Field

-----------------------------------------------------------------------------
(***************************************************************************)
(* One clock of the registers.                                              *)
(***************************************************************************)

\* The command that has been accepted.  SETAASA is accepted for devices whose
\* static address is not zero.
Accepted ==
    /\ cmd.to \subseteq Devices
    /\ cmd.code = None => cmd.to = {}
    /\ cmd.code \in {None, "RSTDAA", "SETAASA", "SETDASA", "SETNEWDA"}
    /\ cmd.code \in {"SETDASA", "SETNEWDA"} => cmd.addr \in BusAddresses
    /\ cmd.code = "SETAASA" => \A d \in cmd.to : Get(d, Static(d)) # {}

Addresses == [addr : SUBSET (0 .. 6), valid : BOOLEAN]

\* A command never leaves a valid address that is empty.
LEMMA LeftSane ==
    ASSUME Accepted, NEW d \in cmd.to
    PROVE  Left(d) \in Addresses /\ (Left(d).valid => Left(d).addr # {})
<1>1. d \in Devices
  BY DEF Accepted
<1>2. CASE cmd.code = "RSTDAA"
  BY <1>2 DEF Left, Addresses
<1>3. CASE cmd.code = "SETAASA"
  BY <1>1, <1>3, FieldRange DEF Left, Addresses, Accepted, Get
<1>4. CASE cmd.code \in {"SETDASA", "SETNEWDA"}
  BY <1>4, AddressAssumption DEF Left, Addresses, Accepted
<1> QED
  BY <1>2, <1>3, <1>4 DEF Accepted, None

LEMMA DeviceHwFits ==
    ASSUME Accepted, NEW d \in Devices, NEW lands \in BOOLEAN
    PROVE  HwFits(Regs[d], HwWrites(d, lands))
<1>1. CASE lands /\ d \in cmd.to
  <2>1. Left(d).addr \in SUBSET (0 .. 6)
    BY <1>1, LeftSane DEF Addresses
  <2>2. Place(Regs[d].fields[Dynamic(d)], Left(d).addr) \subseteq Regs[d].fields[Dynamic(d)].bits
    BY <2>1, WritesFit DEF Fits
  <2> QED
    BY <1>1, <2>2, DeviceFields DEF HwFits, HwWrites
<1>2. CASE ~(lands /\ d \in cmd.to)
  BY <1>2, DeviceFields DEF HwFits, HwWrites, NoHw
<1> QED
  BY <1>1, <1>2

LEMMA ControlHwFits ==
    ASSUME NEW lands \in BOOLEAN
    PROVE  HwFits(Regs["CONTROL"], HwWrites("CONTROL", lands))
BY DEF HwFits, HwWrites

\* A clock in which the software does not write register d: the static address
\* stays, and the dynamic one follows the command that lands, if any.
LEMMA DeviceNotWritten ==
    ASSUME Accepted, NEW d \in Devices, NEW r, NEW a, NEW lands \in BOOLEAN,
           Clock(r, a, lands), r # d \/ a.op # "write"
    PROVE  /\ Get(d, Static(d))' = Get(d, Static(d))
           /\ Get(d, StaticValid(d))' = Get(d, StaticValid(d))
           /\ lands /\ d \in cmd.to => Address(d)' = Left(d)
           /\ ~(lands /\ d \in cmd.to) =>
                 /\ Get(d, Dynamic(d))' = Get(d, Dynamic(d))
                 /\ Get(d, DynamicValid(d))' = Get(d, DynamicValid(d))
<1> DEFINE hw == HwWrites(d, lands)
           b == IF d = r THEN a ELSE NoAccess
<1>1. csr'[d] = RegNext(Regs[d], csr[d], b, hw)
  BY DeviceFields DEF Clock
<1>2. b.op # "write"
  BY DEF NoAccess
<1>3. HwFits(Regs[d], hw)
  BY DeviceHwFits
<1>4. \A n \in AddrFields(d) : Alone(Regs[d], n)
  BY DeviceAlone
<1> HIDE DEF b
<1>5. CASE lands /\ d \in cmd.to
  <2>1. /\ DOMAIN hw = {Dynamic(d), DynamicValid(d)}
        /\ hw[Dynamic(d)] = Place(Regs[d].fields[Dynamic(d)], Left(d).addr)
        /\ hw[DynamicValid(d)] = IF Left(d).valid
                                 THEN Regs[d].fields[DynamicValid(d)].bits ELSE {}
    BY <1>5, DeviceFields DEF HwWrites
  <2> HIDE DEF hw
  <2>2. Get(d, Static(d))' = Get(d, Static(d))
        /\ Get(d, StaticValid(d))' = Get(d, StaticValid(d))
    BY <1>1, <1>2, <1>3, <1>4, <2>1, DeviceFields, Kept DEF Get, AddrFields
  <2>3. Get(d, Dynamic(d))' = FieldOf(Regs[d].fields[Dynamic(d)], hw[Dynamic(d)])
    BY <1>1, <1>2, <1>3, <1>4, <2>1, Driven DEF Get, AddrFields
  <2>4. Get(d, DynamicValid(d))'
          = FieldOf(Regs[d].fields[DynamicValid(d)], hw[DynamicValid(d)])
    BY <1>1, <1>2, <1>3, <1>4, <2>1, Driven DEF Get, AddrFields
  <2>5. Left(d) \in Addresses
    BY <1>5, LeftSane
  <2>6. Get(d, Dynamic(d))' = Left(d).addr
    <3>1. Fits(Regs[d].fields[Dynamic(d)], Left(d).addr)
      BY <2>5, WritesFit DEF Addresses
    <3>2. Regs[d].fields[Dynamic(d)].low \in Nat
      BY DeviceFields DEF Field
    <3> QED
      BY <2>1, <2>3, <3>1, <3>2, Placed
  <2>7. Get(d, DynamicValid(d))' = IF Left(d).valid THEN One ELSE {}
    BY <2>1, <2>4, DeviceFields DEF FieldOf, Field, One
  <2>8. Address(d)' = [addr |-> Left(d).addr, valid |-> Left(d).valid]
    BY <2>5, <2>6, <2>7 DEF Address, Addresses, One
  <2>9. [addr |-> Left(d).addr, valid |-> Left(d).valid] = Left(d)
    BY <2>5 DEF Addresses
  <2> QED
    BY <1>5, <2>2, <2>8, <2>9
<1>6. CASE ~(lands /\ d \in cmd.to)
  <2>1. DOMAIN hw = {}
    BY <1>6, DeviceFields DEF HwWrites, NoHw
  <2> HIDE DEF hw
  <2>2. \A n \in AddrFields(d) : Get(d, n)' = Get(d, n)
    BY <1>1, <1>2, <1>3, <1>4, <2>1, Kept DEF Get
  <2> QED
    BY <1>6, <2>2 DEF AddrFields
<1> QED
  BY <1>5, <1>6

\* A clock in which it does: the software wins over a command that lands.
LEMMA DeviceWritten ==
    ASSUME Accepted, NEW d \in Devices, NEW w, NEW lands \in BOOLEAN,
           Clock(d, Write(w), lands), NEW n \in AddrFields(d)
    PROVE  Get(d, n)' = FieldOf(Regs[d].fields[n], w)
<1>1. csr'[d] = RegNext(Regs[d], csr[d], Write(w), HwWrites(d, lands))
  BY DeviceFields DEF Clock
<1>2. Alone(Regs[d], n) /\ HwFits(Regs[d], HwWrites(d, lands))
  BY DeviceAlone, DeviceHwFits
<1> QED
  BY <1>1, <1>2, Written DEF Get

LEMMA ControlNotWritten ==
    ASSUME NEW r, NEW a, NEW lands \in BOOLEAN, Clock(r, a, lands),
           r # "CONTROL" \/ a.op # "write", NEW n \in ControlFields
    PROVE  Get("CONTROL", n)' = Get("CONTROL", n)
<1> DEFINE hw == HwWrites("CONTROL", lands)
           b == IF "CONTROL" = r THEN a ELSE NoAccess
<1>1. csr'["CONTROL"] = RegNext(Regs["CONTROL"], csr["CONTROL"], b, hw)
  BY ControlAlone DEF Clock
<1>2. b.op # "write"
  BY DEF NoAccess
<1>3. Alone(Regs["CONTROL"], n) /\ HwFits(Regs["CONTROL"], hw) /\ n \notin DOMAIN hw
  BY ControlAlone, ControlHwFits DEF HwWrites
<1> HIDE DEF b, hw
<1> QED
  BY <1>1, <1>2, <1>3, Kept DEF Get

LEMMA ControlWritten ==
    ASSUME NEW w, NEW lands \in BOOLEAN, Clock("CONTROL", Write(w), lands),
           NEW n \in ControlFields
    PROVE  Get("CONTROL", n)' = FieldOf(Regs["CONTROL"].fields[n], w)
<1>1. csr'["CONTROL"] = RegNext(Regs["CONTROL"], csr["CONTROL"], Write(w),
                                HwWrites("CONTROL", lands))
  BY ControlAlone DEF Clock
<1>2. Alone(Regs["CONTROL"], n) /\ HwFits(Regs["CONTROL"], HwWrites("CONTROL", lands))
  BY ControlAlone, ControlHwFits
<1> QED
  BY <1>1, <1>2, Written DEF Get

-----------------------------------------------------------------------------
(***************************************************************************)
(* Reset.                                                                   *)
(***************************************************************************)

\* Powers of two, for Bits.
LEMMA Powers == ASSUME NEW b \in Nat PROVE 2^b \in Nat \ {0}
<1>1. IsFiniteSet(1 .. b) /\ Cardinality(1 .. b) = b
  BY FS_Interval
<1>2. IsFiniteSet(SUBSET (1 .. b)) /\ Cardinality(SUBSET (1 .. b)) = 2^b
  BY <1>1, FS_SUBSET
<1>3. Cardinality(SUBSET (1 .. b)) \in Nat \ {0}
  BY <1>2, FS_CardinalityType, FS_EmptySet
<1> QED
  BY <1>2, <1>3

LEMMA ZeroBits == Bits(0) = {}
<1>1. ASSUME NEW c \in Nat \ {0} PROVE (0 \div c) % 2 # 1
  OBVIOUS
<1> QED
  BY <1>1, Powers DEF Bits

\* The address registers are zero after reset.
LEMMA DeviceReset ==
    ASSUME NEW d \in Devices
    PROVE  ResetWords(Regs[d]) = {{}}
<1>1. \A n \in DOMAIN Regs[d].fields : Regs[d].fields[n].reset = 0
  BY DeviceFields DEF AddrFields, Field
<1>2. {n \in DOMAIN Regs[d].fields : Regs[d].fields[n].reset # Unset}
        = DOMAIN Regs[d].fields
  BY <1>1 DEF Unset
<1> QED
  <2>1. {{b + Regs[d].fields[n].low : b \in Bits(Regs[d].fields[n].reset)} :
           n \in DOMAIN Regs[d].fields} \subseteq {{}}
    BY <1>1, ZeroBits
  <2>2. UNION {{b + Regs[d].fields[n].low : b \in Bits(Regs[d].fields[n].reset)} :
                 n \in DOMAIN Regs[d].fields} = {}
    BY <2>1
  <2>3. UNION {Regs[d].fields[n].bits : n \in DOMAIN Regs[d].fields \ DOMAIN Regs[d].fields}
          = {}
    OBVIOUS
  <2> QED
    <3>1. SUBSET {} = {{}}
      OBVIOUS
    <3>2. {{} \union u : u \in {{}}} = {{}}
      OBVIOUS
    <3> QED
      BY <1>2, <2>2, <2>3, <3>1, <3>2 DEF ResetWords

LEMMA FieldOfZero == ASSUME NEW f PROVE FieldOf(f, {}) = {}
BY DEF FieldOf

-----------------------------------------------------------------------------
(***************************************************************************)
(* What the software writes and checks, one by one.                         *)
(***************************************************************************)

Timings == {"T_R", "T_F", "T_HD_DAT", "T_SU_DAT"}
\* The static address of a device.
Wanted(d) == IF d = "main" THEN static_addr ELSE virtual_static_addr

\* Every operation that may occur.
Operations ==
    {Whole(r, args.timings) : r \in Timings} \union {StandbyMode, EnableXact}
    \union {Set(d, Static(d), Wanted(d)) : d \in Devices}
    \union {Set(d, StaticValid(d), One) : d \in Devices}
    \union {Set(d, Dynamic(d), args.dyn[d]) : d \in Devices}
    \union {Set(d, DynamicValid(d), One) : d \in Devices}

LEMMA Catenation ==
    ASSUME NEW S, NEW s \in Seq(S), NEW t \in Seq(S)
    PROVE  /\ s \o t \in Seq(S) /\ Len(s \o t) = Len(s) + Len(t)
           /\ \A i \in 1 .. Len(s) : (s \o t)[i] = s[i]
           /\ \A j \in 1 .. Len(t) : (s \o t)[Len(s) + j] = t[j]
BY ConcatProperties

LEMMA WithOne ==
    ASSUME NEW S, NEW s \in Seq(S), NEW a \in S
    PROVE  /\ s \o <<a>> \in Seq(S) /\ Len(s \o <<a>>) = Len(s) + 1
           /\ \A i \in 1 .. Len(s) : (s \o <<a>>)[i] = s[i]
           /\ (s \o <<a>>)[Len(s) + 1] = a
<1>1. <<a>> \in Seq(S) /\ Len(<<a>>) = 1 /\ <<a>>[1] = a /\ 1 \in 1 .. Len(<<a>>)
  OBVIOUS
<1> QED
  BY <1>1, Catenation

LEMMA WithTwo ==
    ASSUME NEW S, NEW s \in Seq(S), NEW t \in Seq(S), Len(t) = 2
    PROVE  /\ s \o t \in Seq(S) /\ Len(s \o t) = Len(s) + 2
           /\ \A i \in 1 .. Len(s) : (s \o t)[i] = s[i]
           /\ (s \o t)[Len(s) + 1] = t[1] /\ (s \o t)[Len(s) + 2] = t[2]
<1>1. 1 \in 1 .. Len(t) /\ 2 \in 1 .. Len(t)
  OBVIOUS
<1> QED
  BY <1>1, Catenation

LEMMA Single == ASSUME NEW S, NEW a \in S
              PROVE <<a>> \in Seq(S) /\ Len(<<a>>) = 1 /\ <<a>>[1] = a
OBVIOUS
LEMMA Pair == ASSUME NEW S, NEW a \in S, NEW b \in S
              PROVE /\ <<a, b>> \in Seq(S) /\ Len(<<a, b>>) = 2
                    /\ <<a, b>>[1] = a /\ <<a, b>>[2] = b
OBVIOUS

LEMMA WantedTyped ==
    ASSUME NEW d \in Devices
    PROVE  Wanted(d) \in SUBSET (0 .. 6) /\ Wanted(d) # {}
BY AddressAssumption DEF Wanted, Devices

LEMMA StaticWritesShape ==
    ASSUME NEW d \in Devices
    PROVE  LET s == StaticWrites(d, Wanted(d))
           IN /\ s \in Seq(Operations) /\ Len(s) = 2
              /\ s[1] = Set(d, Static(d), Wanted(d)) /\ s[2] = Set(d, StaticValid(d), One)
<1>1. Set(d, Static(d), Wanted(d)) \in Operations
  BY DEF Operations
<1>2. Set(d, StaticValid(d), One) \in Operations
  BY DEF Operations
<1> QED
  BY <1>1, <1>2, Pair DEF StaticWrites

\* A write of a requested dynamic address of device d.
IsDynamicWrite(d, w) ==
    /\ args.dyn[d] # {}
    /\ w = Set(d, Dynamic(d), args.dyn[d]) \/ w = Set(d, DynamicValid(d), One)

LEMMA ArgsTyped ==
    ASSUME args \in Calls
    PROVE  /\ \A d \in Devices : args.dyn[d] \in SUBSET (0 .. 6)
           /\ args.timings \in SUBSET (0 .. 19)
           /\ args.verify \in BOOLEAN /\ args.discover \in BOOLEAN
<1>1. args \in [dyn : [{"main", "virt"} -> SUBSET (0 .. 6)], timings : SUBSET (0 .. 19),
               verify : BOOLEAN, discover : BOOLEAN]
  BY AddressAssumption
<1> QED
  BY <1>1 DEF Devices

LEMMA DynamicWritesShape ==
    ASSUME args \in Calls, NEW d \in Devices
    PROVE  LET s == DynamicWrites(d)
           IN /\ s \in Seq(Operations) /\ Len(s) \in Nat
              /\ \A i \in 1 .. Len(s) : IsDynamicWrite(d, s[i])
<1>1. CASE args.dyn[d] = {}
  BY <1>1, EmptySeq DEF DynamicWrites
<1>2. CASE args.dyn[d] # {}
  <2>1. Set(d, Dynamic(d), args.dyn[d]) \in Operations
    BY DEF Operations
  <2>2. Set(d, DynamicValid(d), One) \in Operations
    BY DEF Operations
  <2>3. DynamicWrites(d) = <<Set(d, Dynamic(d), args.dyn[d]), Set(d, DynamicValid(d), One)>>
    BY <1>2 DEF DynamicWrites
  <2> QED
    BY <1>2, <2>1, <2>2, <2>3, Pair DEF IsDynamicWrite
<1> QED
  BY <1>1, <1>2

LEMMA TimingWritesShape ==
    ASSUME args \in Calls
    PROVE  /\ TimingWrites \in Seq(Operations) /\ Len(TimingWrites) = 4
           /\ \A i \in 1 .. 4 : TimingWrites[i].field = None
                              /\ TimingWrites[i].reg \in Timings
<1>1. ASSUME NEW r \in Timings
      PROVE  /\ Whole(r, args.timings) \in Operations
             /\ Whole(r, args.timings).field = None /\ Whole(r, args.timings).reg = r
  BY DEF Operations, Whole, Set
<1>2. ASSUME NEW S, NEW a \in S, NEW b \in S, NEW c \in S, NEW d \in S
      PROVE  /\ <<a, b, c, d>> \in Seq(S) /\ Len(<<a, b, c, d>>) = 4
             /\ \A i \in 1 .. 4 : <<a, b, c, d>>[i] \in {a, b, c, d}
  OBVIOUS
<1> QED
  BY <1>1, <1>2 DEF TimingWrites, Timings

\* The writes in order: four timings, the mode, the static addresses, the
\* dynamic addresses, the enable.
LEMMA WritesShape ==
    ASSUME args \in Calls
    PROVE  /\ Writes \in Seq(Operations) /\ Len(Writes) \in Nat /\ Len(Writes) >= 10
           /\ \A i \in 1 .. 4 : Writes[i].field = None /\ Writes[i].reg \in Timings
           /\ Writes[5] = StandbyMode
           /\ Writes[6] = Set("main", Static("main"), Wanted("main"))
           /\ Writes[7] = Set("main", StaticValid("main"), One)
           /\ Writes[8] = Set("virt", Static("virt"), Wanted("virt"))
           /\ Writes[9] = Set("virt", StaticValid("virt"), One)
           /\ \A i \in 10 .. Len(Writes) - 1 : \E d \in Devices : IsDynamicWrite(d, Writes[i])
           /\ Writes[Len(Writes)] = EnableXact
<1> DEFINE A == TimingWrites
           B == A \o <<StandbyMode>>
           C == B \o StaticWrites("main", static_addr)
           D == C \o StaticWrites("virt", virtual_static_addr)
           E == D \o DynamicWrites("main")
           F == E \o DynamicWrites("virt")
<1> HIDE DEF A, B, C, D, E, F
<1>0. "main" \in Devices /\ "virt" \in Devices /\ Wanted("main") = static_addr
      /\ Wanted("virt") = virtual_static_addr
  BY DEF Devices, Wanted
<1>1. A \in Seq(Operations) /\ Len(A) = 4
      /\ \A i \in 1 .. 4 : A[i].field = None /\ A[i].reg \in Timings
  BY TimingWritesShape DEF A
<1>2. StandbyMode \in Operations /\ EnableXact \in Operations
  BY DEF Operations
<1>3. /\ B \in Seq(Operations) /\ Len(B) = 5
      /\ \A i \in 1 .. 4 : B[i] = A[i]
      /\ B[5] = StandbyMode
  <2>1. /\ B \in Seq(Operations) /\ Len(B) = Len(A) + 1
        /\ \A i \in 1 .. Len(A) : B[i] = A[i]
        /\ B[Len(A) + 1] = StandbyMode
    BY <1>1, <1>2, WithOne, ZenonT(40) DEF B
  <2> QED
    BY <1>1, <2>1
<1>4. /\ C \in Seq(Operations) /\ Len(C) = 7
      /\ \A i \in 1 .. 5 : C[i] = B[i]
      /\ C[6] = Set("main", Static("main"), Wanted("main"))
      /\ C[7] = Set("main", StaticValid("main"), One)
  <2> DEFINE s == StaticWrites("main", static_addr)
  <2>1. s \in Seq(Operations) /\ Len(s) = 2
        /\ s[1] = Set("main", Static("main"), Wanted("main"))
        /\ s[2] = Set("main", StaticValid("main"), One)
    BY <1>0, StaticWritesShape
  <2> HIDE DEF s
  <2>2. C = B \o s
    BY DEF s, C
  <2>3. /\ C \in Seq(Operations) /\ Len(C) = Len(B) + 2
        /\ \A i \in 1 .. Len(B) : C[i] = B[i]
        /\ C[Len(B) + 1] = s[1] /\ C[Len(B) + 2] = s[2]
    <3>1. B \in Seq(Operations) /\ s \in Seq(Operations) /\ Len(s) = 2
      BY <1>3, <2>1
    <3> QED
      BY <2>2, <3>1, WithTwo
  <2> QED
    BY <1>3, <2>1, <2>3
<1>5. /\ D \in Seq(Operations) /\ Len(D) = 9
      /\ \A i \in 1 .. 7 : D[i] = C[i]
      /\ D[8] = Set("virt", Static("virt"), Wanted("virt"))
      /\ D[9] = Set("virt", StaticValid("virt"), One)
  <2> DEFINE s == StaticWrites("virt", virtual_static_addr)
  <2>1. s \in Seq(Operations) /\ Len(s) = 2
        /\ s[1] = Set("virt", Static("virt"), Wanted("virt"))
        /\ s[2] = Set("virt", StaticValid("virt"), One)
    BY <1>0, StaticWritesShape
  <2> HIDE DEF s
  <2>2. D = C \o s
    BY DEF s, D
  <2>3. /\ D \in Seq(Operations) /\ Len(D) = Len(C) + 2
        /\ \A i \in 1 .. Len(C) : D[i] = C[i]
        /\ D[Len(C) + 1] = s[1] /\ D[Len(C) + 2] = s[2]
    <3>1. C \in Seq(Operations) /\ s \in Seq(Operations) /\ Len(s) = 2
      BY <1>4, <2>1
    <3> QED
      BY <2>2, <3>1, WithTwo
  <2> QED
    BY <1>4, <2>1, <2>3
<1>6. /\ E \in Seq(Operations) /\ Len(E) \in Nat /\ Len(E) >= 9
      /\ \A i \in 1 .. 9 : E[i] = D[i]
      /\ \A i \in 10 .. Len(E) : IsDynamicWrite("main", E[i])
  <2> DEFINE s == DynamicWrites("main")
  <2>1. s \in Seq(Operations) /\ Len(s) \in Nat
        /\ \A i \in 1 .. Len(s) : IsDynamicWrite("main", s[i])
    BY <1>0, DynamicWritesShape
  <2> HIDE DEF s
  <2>2. E = D \o s
    BY DEF s, E
  <2>3. /\ E \in Seq(Operations) /\ Len(E) = Len(D) + Len(s)
        /\ \A i \in 1 .. Len(D) : E[i] = D[i]
        /\ \A j \in 1 .. Len(s) : E[Len(D) + j] = s[j]
    <3>1. D \in Seq(Operations) /\ s \in Seq(Operations)
      BY <1>5, <2>1
    <3> QED
      BY <2>2, <3>1, Catenation
  <2>4. ASSUME NEW i \in 10 .. Len(E)
        PROVE  IsDynamicWrite("main", E[i])
    <3>1. i - Len(D) \in 1 .. Len(s) /\ i = Len(D) + (i - Len(D))
      BY <1>5, <2>1, <2>3
    <3> QED
      BY <2>1, <2>3, <3>1
  <2> QED
    BY <1>5, <2>1, <2>3, <2>4
<1>7. /\ F \in Seq(Operations) /\ Len(F) \in Nat /\ Len(F) >= 9
      /\ \A i \in 1 .. 9 : F[i] = E[i]
      /\ \A i \in 10 .. Len(F) : \E d \in Devices : IsDynamicWrite(d, F[i])
  <2> DEFINE s == DynamicWrites("virt")
  <2>1. s \in Seq(Operations) /\ Len(s) \in Nat
        /\ \A i \in 1 .. Len(s) : IsDynamicWrite("virt", s[i])
    BY <1>0, DynamicWritesShape
  <2> HIDE DEF s
  <2>2. F = E \o s
    BY DEF s, F
  <2>3. /\ F \in Seq(Operations) /\ Len(F) = Len(E) + Len(s)
        /\ \A i \in 1 .. Len(E) : F[i] = E[i]
        /\ \A j \in 1 .. Len(s) : F[Len(E) + j] = s[j]
    BY <1>6, <2>1, <2>2, Catenation
  <2>4. ASSUME NEW i \in 10 .. Len(F)
        PROVE  \E d \in Devices : IsDynamicWrite(d, F[i])
    <3>1. CASE i <= Len(E)
      <4>1. i \in 10 .. Len(E) /\ i \in 1 .. Len(E)
        BY <1>6, <3>1
      <4> QED
        BY <1>0, <1>6, <2>3, <4>1
    <3>2. CASE i > Len(E)
      <4>1. i - Len(E) \in 1 .. Len(s) /\ i = Len(E) + (i - Len(E))
        BY <1>6, <2>1, <2>3, <3>2
      <4> QED
        BY <1>0, <2>1, <2>3, <4>1
    <3> QED
      BY <1>6, <3>1, <3>2
  <2> QED
    BY <1>6, <2>1, <2>3, <2>4, SMTT(40)
<1>8. Writes = F \o <<EnableXact>>
  BY DEF Writes, A, B, C, D, E, F
<1>9. /\ Writes \in Seq(Operations) /\ Len(Writes) = Len(F) + 1
      /\ \A i \in 1 .. Len(F) : Writes[i] = F[i]
      /\ Writes[Len(F) + 1] = EnableXact
  BY <1>2, <1>7, <1>8, WithOne
<1>10. ASSUME NEW i \in 1 .. 9
       PROVE  Writes[i] = D[i]
  <2>1. i \in 1 .. Len(F)
    BY <1>7
  <2>2. Writes[i] = F[i]
    BY <1>9, <2>1
  <2>3. F[i] = E[i]
    BY <1>7
  <2>4. E[i] = D[i]
    BY <1>6
  <2> QED
    BY <2>2, <2>3, <2>4
<1>11. \A i \in 10 .. Len(Writes) - 1 : Writes[i] = F[i]
  BY <1>7, <1>9
<1>12. \A i \in 1 .. 7 : Writes[i] = C[i]
  BY <1>5, <1>10
<1>13. \A i \in 1 .. 5 : Writes[i] = B[i]
  BY <1>4, <1>12
<1>14. \A i \in 1 .. 4 : Writes[i].field = None /\ Writes[i].reg \in Timings
  BY <1>1, <1>3, <1>13
<1>15. Writes[5] = StandbyMode
  BY <1>3, <1>13
<1>16. /\ Writes[6] = Set("main", Static("main"), Wanted("main"))
       /\ Writes[7] = Set("main", StaticValid("main"), One)
  BY <1>4, <1>12
<1>17. /\ Writes[8] = Set("virt", Static("virt"), Wanted("virt"))
       /\ Writes[9] = Set("virt", StaticValid("virt"), One)
  BY <1>5, <1>10
<1>18. \A i \in 10 .. Len(Writes) - 1 : \E d \in Devices : IsDynamicWrite(d, Writes[i])
  BY <1>7, <1>9, <1>11
<1>19. Len(Writes) \in Nat /\ Len(Writes) >= 10 /\ Writes[Len(Writes)] = EnableXact
  BY <1>7, <1>9
<1> QED
  BY <1>9, <1>14, <1>15, <1>16, <1>17, <1>18, <1>19

LEMMA ChecksShape ==
    /\ Len(Checks) = 6 /\ Checks[1] = StandbyMode
    /\ Checks[2] = Set("main", Static("main"), Wanted("main"))
    /\ Checks[3] = Set("main", StaticValid("main"), One)
    /\ Checks[4] = Set("virt", Static("virt"), Wanted("virt"))
    /\ Checks[5] = Set("virt", StaticValid("virt"), One)
    /\ Checks[6] = EnableXact
<1> DEFINE B == <<StandbyMode>>
           C == B \o StaticWrites("main", static_addr)
           D == C \o StaticWrites("virt", virtual_static_addr)
<1> HIDE DEF B, C, D
<1>0. "main" \in Devices /\ "virt" \in Devices /\ Wanted("main") = static_addr
      /\ Wanted("virt") = virtual_static_addr
  BY DEF Devices, Wanted
<1>2. StandbyMode \in Operations /\ EnableXact \in Operations
  BY DEF Operations
<1>3. B \in Seq(Operations) /\ Len(B) = 1 /\ B[1] = StandbyMode
  BY <1>2, Single DEF B
<1>4. /\ C \in Seq(Operations) /\ Len(C) = 3 /\ C[1] = B[1]
      /\ C[2] = Set("main", Static("main"), Wanted("main"))
      /\ C[3] = Set("main", StaticValid("main"), One)
  <2> DEFINE s == StaticWrites("main", static_addr)
  <2>1. s \in Seq(Operations) /\ Len(s) = 2
        /\ s[1] = Set("main", Static("main"), Wanted("main"))
        /\ s[2] = Set("main", StaticValid("main"), One)
    BY <1>0, StaticWritesShape
  <2> HIDE DEF s
  <2>2. C = B \o s
    BY DEF s, C
  <2>3. /\ C \in Seq(Operations) /\ Len(C) = Len(B) + 2
        /\ \A i \in 1 .. Len(B) : C[i] = B[i]
        /\ C[Len(B) + 1] = s[1] /\ C[Len(B) + 2] = s[2]
    <3>1. B \in Seq(Operations) /\ s \in Seq(Operations) /\ Len(s) = 2
      BY <1>3, <2>1
    <3> QED
      BY <2>2, <3>1, WithTwo
  <2> QED
    BY <1>3, <2>1, <2>3
<1>5. /\ D \in Seq(Operations) /\ Len(D) = 5
      /\ \A i \in 1 .. 3 : D[i] = C[i]
      /\ D[4] = Set("virt", Static("virt"), Wanted("virt"))
      /\ D[5] = Set("virt", StaticValid("virt"), One)
  <2> DEFINE s == StaticWrites("virt", virtual_static_addr)
  <2>1. s \in Seq(Operations) /\ Len(s) = 2
        /\ s[1] = Set("virt", Static("virt"), Wanted("virt"))
        /\ s[2] = Set("virt", StaticValid("virt"), One)
    BY <1>0, StaticWritesShape
  <2> HIDE DEF s
  <2>2. D = C \o s
    BY DEF s, D
  <2>3. /\ D \in Seq(Operations) /\ Len(D) = Len(C) + 2
        /\ \A i \in 1 .. Len(C) : D[i] = C[i]
        /\ D[Len(C) + 1] = s[1] /\ D[Len(C) + 2] = s[2]
    <3>1. C \in Seq(Operations) /\ s \in Seq(Operations) /\ Len(s) = 2
      BY <1>4, <2>1
    <3> QED
      BY <2>2, <3>1, WithTwo
  <2> QED
    BY <1>4, <2>1, <2>3
<1>6. Checks = D \o <<EnableXact>>
  BY DEF Checks, B, C, D
<1>7. /\ Len(Checks) = Len(D) + 1 /\ Checks[Len(D) + 1] = EnableXact
      /\ \A i \in 1 .. Len(D) : Checks[i] = D[i]
  <2>1. D \in Seq(Operations) /\ EnableXact \in Operations
    BY <1>2, <1>5
  <2> QED
    BY <1>6, <2>1, WithOne
<1>8. Len(Checks) = 6 /\ Checks[6] = EnableXact /\ \A i \in 1 .. 5 : Checks[i] = D[i]
  BY <1>5, <1>7
<1> QED
  BY <1>3, <1>4, <1>5, <1>8

-----------------------------------------------------------------------------
(***************************************************************************)
(* The walk over the extended capabilities.                                 *)
(***************************************************************************)

\* The headers are the only registers at their addresses.
LEMMA RecoveryBases ==
    \A r \in SECFWRECOVERYIF :
        /\ r.base_addr >= 256 /\ r.base_addr < 384
        /\ r.base_addr = 256 => r = SECFWRECOVERYIF_EXTCAP_HEADER
BY DEF Csr, SECFWRECOVERYIF, SECFWRECOVERYIF_EXTCAP_HEADER, PROT_CAP_0, PROT_CAP_1,
       PROT_CAP_2, PROT_CAP_3, DEVICE_ID_0, DEVICE_ID_1, DEVICE_ID_2, DEVICE_ID_3,
       DEVICE_ID_4, DEVICE_ID_5, DEVICE_ID_RESERVED, DEVICE_STATUS_0, DEVICE_STATUS_1,
       DEVICE_RESET, RECOVERY_CTRL, RECOVERY_STATUS, HW_STATUS, INDIRECT_FIFO_CTRL_0,
       INDIRECT_FIFO_CTRL_1, INDIRECT_FIFO_STATUS_0, INDIRECT_FIFO_STATUS_1,
       INDIRECT_FIFO_STATUS_2, INDIRECT_FIFO_STATUS_3, INDIRECT_FIFO_STATUS_4,
       INDIRECT_FIFO_RESERVED, INDIRECT_FIFO_DATA

LEMMA StandbyBases ==
    \A r \in STDBYCTRLMODE :
        /\ r.base_addr >= 384 /\ r.base_addr < 448
        /\ r.base_addr = 384 => r = STDBYCTRLMODE_EXTCAP_HEADER
BY DEF Csr, STDBYCTRLMODE, STDBYCTRLMODE_EXTCAP_HEADER, STBY_CR_CONTROL,
       STBY_CR_DEVICE_ADDR, STBY_CR_CAPABILITIES, STBY_CR_VIRTUAL_DEVICE_CHAR,
       STBY_CR_STATUS, STBY_CR_DEVICE_CHAR, STBY_CR_DEVICE_PID_LO, STBY_CR_INTR_STATUS,
       STBY_CR_VIRTUAL_DEVICE_PID_LO, STBY_CR_INTR_SIGNAL_ENABLE, STBY_CR_INTR_FORCE,
       STBY_CR_CCC_CONFIG_GETCAPS, STBY_CR_CCC_CONFIG_RSTACT_PARAMS,
       STBY_CR_VIRT_DEVICE_ADDR, RSVD_3

LEMMA TtiBases ==
    \A r \in TTI :
        /\ r.base_addr >= 448 /\ r.base_addr < 512
        /\ r.base_addr = 448 => r = TTI_EXTCAP_HEADER
BY DEF Csr, TTI, TTI_EXTCAP_HEADER, CONTROL, STATUS, RESET_CONTROL, INTERRUPT_STATUS,
       INTERRUPT_ENABLE, INTERRUPT_FORCE, RX_DESC_QUEUE_PORT, RX_DATA_PORT,
       TX_DESC_QUEUE_PORT, TX_DATA_PORT, IBI_PORT, QUEUE_SIZE, IBI_QUEUE_SIZE,
       QUEUE_THLD_CTRL, DATA_BUFFER_THLD_CTRL

LEMMA SocBases ==
    \A r \in SOCMGMTIF :
        /\ r.base_addr >= 512 /\ r.base_addr < 608
        /\ r.base_addr = 512 => r = SOCMGMTIF_EXTCAP_HEADER
BY DEF Csr, SOCMGMTIF, SOCMGMTIF_EXTCAP_HEADER, SOC_MGMT_CONTROL, SOC_MGMT_STATUS,
       REC_INTF_CFG, REC_INTF_REG_W1C_ACCESS, SOC_MGMT_RSVD_2, SOC_MGMT_RSVD_3,
       SOC_PAD_CONF, SOC_PAD_ATTR, SOC_MGMT_FEATURE_2, SOC_MGMT_FEATURE_3, T_R_REG,
       T_F_REG, T_SU_DAT_REG, T_HD_DAT_REG, T_HIGH_REG, T_LOW_REG, T_HD_STA_REG,
       T_SU_STA_REG, T_SU_STO_REG, T_FREE_REG, T_AVAL_REG, T_IDLE_REG

LEMMA ControllerBases ==
    \A r \in CTRLCFG \union {TERMINATION_EXTCAP_HEADER} :
        /\ r.base_addr >= 608
        /\ r.base_addr = 608 => r = CTRLCFG_EXTCAP_HEADER
        /\ r.base_addr = 616 => r = TERMINATION_EXTCAP_HEADER
BY DEF Csr, CTRLCFG, CTRLCFG_EXTCAP_HEADER, CONTROLLER_CONFIG, TERMINATION_EXTCAP_HEADER

LEMMA HeaderBases ==
    /\ SECFWRECOVERYIF_EXTCAP_HEADER.base_addr = 256
    /\ STDBYCTRLMODE_EXTCAP_HEADER.base_addr = 384
    /\ TTI_EXTCAP_HEADER.base_addr = 448 /\ SOCMGMTIF_EXTCAP_HEADER.base_addr = 512
    /\ CTRLCFG_EXTCAP_HEADER.base_addr = 608 /\ TERMINATION_EXTCAP_HEADER.base_addr = 616
BY DEF Csr, SECFWRECOVERYIF_EXTCAP_HEADER, STDBYCTRLMODE_EXTCAP_HEADER, TTI_EXTCAP_HEADER,
       SOCMGMTIF_EXTCAP_HEADER, CTRLCFG_EXTCAP_HEADER, TERMINATION_EXTCAP_HEADER

LEMMA Headers ==
    /\ Header(256) = SECFWRECOVERYIF_EXTCAP_HEADER
    /\ Header(384) = STDBYCTRLMODE_EXTCAP_HEADER
    /\ Header(448) = TTI_EXTCAP_HEADER /\ Header(512) = SOCMGMTIF_EXTCAP_HEADER
    /\ Header(608) = CTRLCFG_EXTCAP_HEADER /\ Header(616) = TERMINATION_EXTCAP_HEADER
<1>1. ASSUME NEW h \in reg_map, \A r \in reg_map : r.base_addr = h.base_addr => r = h
      PROVE  Header(h.base_addr) = h
  BY <1>1 DEF Header
<1>2. /\ SECFWRECOVERYIF_EXTCAP_HEADER \in reg_map
      /\ STDBYCTRLMODE_EXTCAP_HEADER \in reg_map
      /\ TTI_EXTCAP_HEADER \in reg_map /\ SOCMGMTIF_EXTCAP_HEADER \in reg_map
      /\ CTRLCFG_EXTCAP_HEADER \in reg_map /\ TERMINATION_EXTCAP_HEADER \in reg_map
  BY DEF reg_map, SECFWRECOVERYIF, STDBYCTRLMODE, TTI, SOCMGMTIF, CTRLCFG
<1>3. \A r \in reg_map :
         /\ r.base_addr = 256 => r = SECFWRECOVERYIF_EXTCAP_HEADER
         /\ r.base_addr = 384 => r = STDBYCTRLMODE_EXTCAP_HEADER
         /\ r.base_addr = 448 => r = TTI_EXTCAP_HEADER
         /\ r.base_addr = 512 => r = SOCMGMTIF_EXTCAP_HEADER
         /\ r.base_addr = 608 => r = CTRLCFG_EXTCAP_HEADER
         /\ r.base_addr = 616 => r = TERMINATION_EXTCAP_HEADER
  BY RecoveryBases, StandbyBases, TtiBases, SocBases, ControllerBases DEF reg_map
<1> QED
  BY <1>1, <1>2, <1>3, HeaderBases

path == <<256, 384, 448, 512, 608, 616>>

\* Every header leads to the next, and the last one ends the walk.
LEMMA Hops ==
    /\ \A k \in 0 .. 4 :
          /\ HeaderField(Header(path[k + 1]), "CAP_ID") = expected_cap_ids[k + 1]
          /\ expected_cap_ids[k + 1] # 0 /\ expected_cap_ids[k + 1] \in Int
          /\ path[k + 1] + 4 * HeaderField(Header(path[k + 1]), "CAP_LENGTH") = path[k + 2]
    /\ HeaderField(Header(path[6]), "CAP_ID") = 0
<1>1. /\ path[1] = 256 /\ path[2] = 384 /\ path[3] = 448 /\ path[4] = 512
      /\ path[5] = 608 /\ path[6] = 616
  BY DEF path
<1>2. /\ expected_cap_ids[1] = 192 /\ expected_cap_ids[2] = 18
      /\ expected_cap_ids[3] = 196 /\ expected_cap_ids[4] = 193
      /\ expected_cap_ids[5] = 2
  BY DEF expected_cap_ids
<1>3. /\ HeaderField(SECFWRECOVERYIF_EXTCAP_HEADER, "CAP_ID") = 192
      /\ HeaderField(SECFWRECOVERYIF_EXTCAP_HEADER, "CAP_LENGTH") = 32
  BY DEF HeaderField, Csr, Field, SECFWRECOVERYIF_EXTCAP_HEADER
<1>4. /\ HeaderField(STDBYCTRLMODE_EXTCAP_HEADER, "CAP_ID") = 18
      /\ HeaderField(STDBYCTRLMODE_EXTCAP_HEADER, "CAP_LENGTH") = 16
  BY DEF HeaderField, Csr, Field, STDBYCTRLMODE_EXTCAP_HEADER
<1>5. /\ HeaderField(TTI_EXTCAP_HEADER, "CAP_ID") = 196
      /\ HeaderField(TTI_EXTCAP_HEADER, "CAP_LENGTH") = 16
  BY DEF HeaderField, Csr, Field, TTI_EXTCAP_HEADER
<1>6. /\ HeaderField(SOCMGMTIF_EXTCAP_HEADER, "CAP_ID") = 193
      /\ HeaderField(SOCMGMTIF_EXTCAP_HEADER, "CAP_LENGTH") = 24
  BY DEF HeaderField, Csr, Field, SOCMGMTIF_EXTCAP_HEADER
<1>7. /\ HeaderField(CTRLCFG_EXTCAP_HEADER, "CAP_ID") = 2
      /\ HeaderField(CTRLCFG_EXTCAP_HEADER, "CAP_LENGTH") = 2
  BY DEF HeaderField, Csr, Field, CTRLCFG_EXTCAP_HEADER
<1>8. HeaderField(TERMINATION_EXTCAP_HEADER, "CAP_ID") = 0
  BY DEF HeaderField, Csr, Field, TERMINATION_EXTCAP_HEADER
<1>9. HeaderField(Header(path[6]), "CAP_ID") = 0
  BY <1>1, <1>8, Headers
<1>10. ASSUME NEW k \in 0 .. 4
       PROVE  /\ HeaderField(Header(path[k + 1]), "CAP_ID") = expected_cap_ids[k + 1]
              /\ expected_cap_ids[k + 1] # 0 /\ expected_cap_ids[k + 1] \in Int
              /\ path[k + 1] + 4 * HeaderField(Header(path[k + 1]), "CAP_LENGTH")
                   = path[k + 2]
  <2>1. CASE k = 0
    BY <1>1, <1>2, <1>3, <2>1, Headers
  <2>2. CASE k = 1
    BY <1>1, <1>2, <1>4, <2>2, Headers
  <2>3. CASE k = 2
    BY <1>1, <1>2, <1>5, <2>3, Headers
  <2>4. CASE k = 3
    BY <1>1, <1>2, <1>6, <2>4, Headers
  <2>5. CASE k = 4
    BY <1>1, <1>2, <1>7, <2>5, Headers
  <2> QED
    BY <2>1, <2>2, <2>3, <2>4, <2>5
<1> QED
  BY <1>9, <1>10

\* The walk has passed the first k headers.
Walked(k) ==
    /\ walk.offset = path[k + 1]
    /\ walk.ids \in Seq(Int) /\ Len(walk.ids) = k
    /\ \A i \in 1 .. k : walk.ids[i] = expected_cap_ids[i]

LEMMA WalkOn ==
    ASSUME NEW k \in 0 .. 4, Walked(k), Discover
    PROVE  Walked(k + 1)' /\ pc' = pc
<1> DEFINE id == HeaderField(Header(walk.offset), "CAP_ID")
           next == walk.offset + 4 * HeaderField(Header(walk.offset), "CAP_LENGTH")
<1>1. id = expected_cap_ids[k + 1] /\ id # 0 /\ id \in Int /\ next = path[k + 2]
  BY Hops DEF Walked
<1>2. /\ walk' = [offset |-> next, ids |-> Append(walk.ids, id),
                  offsets |-> Append(walk.offsets, next)]
      /\ pc' = pc
  BY <1>1 DEF Discover
<1> HIDE DEF id, next
<1>3. walk'.offset = path[k + 2] /\ walk'.ids = Append(walk.ids, id)
  BY <1>1, <1>2
<1>4. /\ Append(walk.ids, id) \in Seq(Int) /\ Len(Append(walk.ids, id)) = k + 1
      /\ \A i \in 1 .. k : Append(walk.ids, id)[i] = walk.ids[i]
      /\ Append(walk.ids, id)[k + 1] = id
  BY <1>1 DEF Walked
<1>5. \A i \in 1 .. k + 1 : Append(walk.ids, id)[i] = expected_cap_ids[i]
  BY <1>1, <1>4 DEF Walked
<1> QED
  BY <1>2, <1>3, <1>4, <1>5 DEF Walked

LEMMA WalkEnds ==
    ASSUME Walked(5), Discover
    PROVE  pc' = "write"
<1>1. HeaderField(Header(walk.offset), "CAP_ID") = 0
  BY Hops DEF Walked
<1>2. walk.ids = expected_cap_ids
  <2>1. expected_cap_ids \in Seq(Int) /\ Len(expected_cap_ids) = 5
    BY DEF expected_cap_ids
  <2>2. walk.ids \in Seq(Int) /\ Len(walk.ids) = 5
        /\ \A i \in 1 .. 5 : walk.ids[i] = expected_cap_ids[i]
    BY DEF Walked
  <2> QED
    BY <2>1, <2>2, SeqEqual
<1> QED
  BY <1>1, <1>2 DEF Discover

-----------------------------------------------------------------------------
(***************************************************************************)
(* The inductive invariant.                                                 *)
(***************************************************************************)

Phase ==
    /\ pc \in {"discover", "write", "verify", "done"} /\ step \in Nat
    /\ pc = "discover" => step = 1 /\ \E k \in 0 .. 5 : Walked(k)
    /\ pc = "write" => step \in 1 .. Len(Writes)
    /\ pc = "verify" => step \in 1 .. 6

\* The software has made write i.
Past(i) == pc \in {"verify", "done"} \/ (pc = "write" /\ step > i)
StaticStep(d) == IF d = "main" THEN 6 ELSE 8

\* What has been written and belongs to the software alone is still there.
Progress ==
    /\ Past(5) => Get("CONTROL", "STBY_CR_ENABLE_INIT") = {1}
    /\ \A d \in Devices :
          /\ Past(StaticStep(d)) => Get(d, Static(d)) = Wanted(d)
          /\ Past(StaticStep(d) + 1) => Get(d, StaticValid(d)) = One
    /\ pc \in {"verify", "done"} => Get("CONTROL", "TARGET_XACT_ENABLE") = One

\* NoEmptyAddress of device d in word w.
Sane(d, w) ==
    args.dyn[d] = {} /\ FieldOf(Regs[d].fields[DynamicValid(d)], w) = One
      => FieldOf(Regs[d].fields[Dynamic(d)], w) # {}

\* The word of a read-modify-write is what the register holds, except for an
\* address that a command has left since.
Unchanged(r, n) == FieldOf(Regs[r].fields[n], UNION got) = Get(r, n)
GotWord ==
    got # {} =>
      /\ pc = "write" /\ Writes[step].field # None
      /\ Writes[step].reg = "CONTROL" => \A n \in ControlFields : Unchanged("CONTROL", n)
      /\ \A d \in Devices : Writes[step].reg = d =>
            /\ Unchanged(d, Static(d)) /\ Unchanged(d, StaticValid(d))
            /\ Sane(d, UNION got)
            /\ ~dirty[d] => Unchanged(d, Dynamic(d)) /\ Unchanged(d, DynamicValid(d))

\* The address of device d.
DeviceInv(d) ==
    /\ truth[d] \in Addresses /\ dirty[d] \in BOOLEAN
    /\ Sane(d, csr[d])
    /\ ~dirty[d] => Address(d) = truth[d]

BootInv ==
    /\ args \in Calls
    /\ Phase /\ Progress /\ GotWord /\ Accepted
    /\ \A d \in Devices : DeviceInv(d)

LEMMA WritesStay == ASSUME args' = args PROVE Writes' = Writes
BY DEF Writes, TimingWrites, StaticWrites, DynamicWrites, StandbyMode, EnableXact, Whole,
       Set

\* Which write is at hand.
LEMMA AtHand ==
    ASSUME args \in Calls, NEW i \in 1 .. Len(Writes)
    PROVE  \/ i \in 1 .. 4 /\ Writes[i].field = None /\ Writes[i].reg \in Timings
           \/ i = 5 /\ Writes[i] = StandbyMode
           \/ \E d \in Devices :
                 \/ i = StaticStep(d) /\ Writes[i] = Set(d, Static(d), Wanted(d))
                 \/ i = StaticStep(d) + 1 /\ Writes[i] = Set(d, StaticValid(d), One)
                 \/ i > 9 /\ i < Len(Writes) /\ IsDynamicWrite(d, Writes[i])
           \/ i > 9 /\ i = Len(Writes) /\ Writes[i] = EnableXact
<1>1. "main" \in Devices /\ "virt" \in Devices
      /\ StaticStep("main") = 6 /\ StaticStep("virt") = 8
  BY DEF Devices, StaticStep
<1>2. Len(Writes) \in Nat /\ Len(Writes) >= 10
  BY WritesShape
<1>3. CASE i \in 1 .. 4
  BY <1>3, WritesShape
<1>4. CASE i = 5
  BY <1>4, WritesShape
<1>5. CASE i = 6
  <2>1. Writes[6] = Set("main", Static("main"), Wanted("main"))
    BY WritesShape
  <2> QED
    BY <1>1, <1>5, <2>1
<1>6. CASE i = 7
  <2>1. Writes[7] = Set("main", StaticValid("main"), One)
    BY WritesShape
  <2> QED
    BY <1>1, <1>6, <2>1
<1>7. CASE i = 8
  <2>1. Writes[8] = Set("virt", Static("virt"), Wanted("virt"))
    BY WritesShape
  <2> QED
    BY <1>1, <1>7, <2>1
<1>8. CASE i = 9
  <2>1. Writes[9] = Set("virt", StaticValid("virt"), One)
    BY WritesShape
  <2> QED
    BY <1>1, <1>8, <2>1
<1>9. CASE i > 9 /\ i < Len(Writes)
  <2>1. i \in 10 .. Len(Writes) - 1
    BY <1>2, <1>9
  <2>2. \E d \in Devices : IsDynamicWrite(d, Writes[i])
    BY <2>1, WritesShape
  <2> QED
    BY <1>9, <2>2
<1>10. CASE i > 9 /\ i = Len(Writes)
  <2>1. Writes[Len(Writes)] = EnableXact
    BY WritesShape
  <2> QED
    BY <1>10, <2>1
<1> QED
  BY <1>2, <1>3, <1>4, <1>5, <1>6, <1>7, <1>8, <1>9, <1>10

-----------------------------------------------------------------------------
(***************************************************************************)
(* Steps that leave a register to the hardware.                             *)
(***************************************************************************)

\* Where no write goes to register d, what is known of its addresses remains.
LEMMA Spared ==
    ASSUME args' = args, Accepted, NEW d \in Devices, DeviceInv(d),
           NEW r, NEW a, NEW lands \in BOOLEAN, Clock(r, a, lands),
           r # d \/ a.op # "write",
           dirty'[d] \in BOOLEAN, ~dirty'[d] => (lands /\ d \in cmd.to) \/ ~dirty[d],
           truth'[d] = IF lands /\ d \in cmd.to THEN Left(d) ELSE truth[d]
    PROVE  DeviceInv(d)'
<1>1. CASE lands /\ d \in cmd.to
  <2>1. Left(d) \in Addresses /\ (Left(d).valid => Left(d).addr # {})
    BY <1>1, LeftSane
  <2>2. Address(d)' = Left(d)
    BY <1>1, DeviceNotWritten
  <2>3. Get(d, Dynamic(d))' = Left(d).addr
        /\ (Get(d, DynamicValid(d))' = One) = Left(d).valid
    BY <2>2 DEF Address
  <2>4. Sane(d, csr[d])'
    BY <2>1, <2>3 DEF Sane, Get
  <2> QED
    BY <1>1, <2>1, <2>2, <2>4 DEF DeviceInv, Addresses
<1>2. CASE ~(lands /\ d \in cmd.to)
  <2>1. Get(d, Dynamic(d))' = Get(d, Dynamic(d))
        /\ Get(d, DynamicValid(d))' = Get(d, DynamicValid(d))
    BY <1>2, DeviceNotWritten
  <2>2. Address(d)' = Address(d)
    BY <2>1 DEF Address
  <2>3. Sane(d, csr[d])'
    BY <2>1 DEF Sane, Get, DeviceInv
  <2> QED
    BY <1>2, <2>2, <2>3 DEF DeviceInv, Addresses
<1> QED
  BY <1>1, <1>2

\* A clock keeps what is known of the command, if no static address becomes
\* zero.
LEMMA AcceptedClock ==
    ASSUME Accepted, NEW r, NEW a, NEW lands \in BOOLEAN, Clock(r, a, lands),
           \A d \in Devices : \/ Get(d, Static(d))' = Get(d, Static(d))
                             \/ Get(d, Static(d))' # {}
    PROVE  Accepted'
<1>1. CASE lands
  BY <1>1 DEF Clock, Accepted, NoCommand, None
<1>2. CASE ~lands
  <2>1. cmd' = cmd
    BY <1>2 DEF Clock
  <2> QED
    BY <2>1 DEF Accepted
<1> QED
  BY <1>1, <1>2

LEMMA BootInit == Init => BootInv
<1> SUFFICES ASSUME Init PROVE BootInv
  OBVIOUS
<1>1. args \in Calls
  BY DEF Init
<1>2. Phase
  <2>1. pc \in {"discover", "write"} /\ step = 1
    BY DEF Init
  <2>2. walk.offset = path[0 + 1] /\ walk.ids = <<>>
    BY DEF Init, start_addr, path
  <2>3. Walked(0)
    BY <2>2 DEF Walked
  <2>4. step \in 1 .. Len(Writes)
    BY <1>1, <2>1, WritesShape
  <2> QED
    BY <2>1, <2>3, <2>4 DEF Phase
<1>3. Progress
  BY DEF Init, Progress, Past, StaticStep
<1>4. GotWord
  BY DEF Init, GotWord
<1>5. Accepted
  BY DEF Init, Accepted, NoCommand, None
<1>6. ASSUME NEW d \in Devices
      PROVE  DeviceInv(d)
  <2>1. csr[d] = CHOOSE w \in ResetWords(Regs[d]) : TRUE
    BY DeviceFields DEF Init
  <2>2. csr[d] = {}
    BY <2>1, DeviceReset
  <2>3. Get(d, Dynamic(d)) = {} /\ Get(d, DynamicValid(d)) = {}
    BY <2>2, FieldOfZero DEF Get
  <2>4. truth[d] = [addr |-> {}, valid |-> FALSE] /\ dirty[d] = FALSE
    BY DEF Init
  <2> QED
    <3>1. Address(d) = truth[d]
      BY <2>3, <2>4 DEF Address, One
    <3>2. truth[d] \in Addresses /\ dirty[d] \in BOOLEAN
      <4>1. [addr |-> {}, valid |-> FALSE] \in Addresses
        BY DEF Addresses
      <4> QED
        BY <2>4, <4>1
    <3>3. Sane(d, csr[d])
      BY <2>3 DEF Sane, Get, One
    <3> QED
      BY <3>1, <3>2, <3>3 DEF DeviceInv
<1> QED
  BY <1>1, <1>2, <1>3, <1>4, <1>5, <1>6 DEF BootInv

-----------------------------------------------------------------------------
(***************************************************************************)
(* Every action keeps the invariant.                                        *)
(***************************************************************************)

LEMMA DiscoverKeeps == ASSUME BootInv, Discover PROVE BootInv'
<1>1. PICK k \in 0 .. 5 : Walked(k)
  BY DEF BootInv, Phase, Discover
<1>2. args' = args /\ step' = step /\ got' = got /\ csr' = csr /\ cmd' = cmd
      /\ truth' = truth /\ dirty' = dirty /\ pc = "discover"
  BY DEF Discover
<1>3. got = {} /\ step = 1
  BY <1>2 DEF BootInv, GotWord, Phase
<1>4. pc' = "write" \/ (pc' = "discover" /\ \E j \in 0 .. 5 : Walked(j)')
  <2>1. CASE k = 5
    BY <1>1, <2>1, WalkEnds
  <2>2. CASE k \in 0 .. 4
    BY <1>1, <1>2, <2>2, WalkOn
  <2> QED
    BY <1>1, <2>1, <2>2
<1>5. Writes' = Writes /\ 1 \in 1 .. Len(Writes)
  BY <1>2, WritesStay, WritesShape DEF BootInv
<1>6. Phase'
  BY <1>2, <1>3, <1>4, <1>5 DEF Phase
<1>7. Progress'
  BY <1>2, <1>3, <1>4 DEF Progress, Past, StaticStep
<1>8. GotWord'
  BY <1>2, <1>3 DEF GotWord
<1>9. Accepted'
  BY <1>2 DEF BootInv, Accepted, Get
<1>10. \A d \in Devices : DeviceInv(d)'
  BY <1>2 DEF BootInv, DeviceInv, Sane, Address, Get
<1> QED
  BY <1>2, <1>6, <1>7, <1>8, <1>9, <1>10 DEF BootInv

\* The steps of a controller that leave the registers alone.
LEMMA QuietKeeps ==
    ASSUME BootInv, UNCHANGED <<args, pc, walk, step, got, csr, truth, dirty>>, Accepted'
    PROVE  BootInv'
<1>1. args' = args /\ pc' = pc /\ walk' = walk /\ step' = step /\ got' = got
      /\ csr' = csr /\ truth' = truth /\ dirty' = dirty
  OBVIOUS
<1>2. Writes' = Writes
  BY <1>1, WritesStay
<1>3. Phase'
  BY <1>1, <1>2 DEF BootInv, Phase, Walked
<1>4. Progress'
  BY <1>1 DEF BootInv, Progress, Past, Get
<1>5. GotWord'
  BY <1>1, <1>2 DEF BootInv, GotWord, Unchanged, Sane, Get
<1>6. \A d \in Devices : DeviceInv(d)'
  BY <1>1 DEF BootInv, DeviceInv, Sane, Address, Get
<1> QED
  BY <1>1, <1>3, <1>4, <1>5, <1>6 DEF BootInv

LEMMA AcceptKeeps == ASSUME BootInv, Accept PROVE BootInv'
<1>1. UNCHANGED <<args, pc, walk, step, got, csr, truth, dirty>>
  BY DEF Accept
<1>2. \A d \in Devices : Get(d, Static(d))' = Get(d, Static(d))
  BY <1>1 DEF Get
<1>3. {} \in reserved
  <2>1. 0 \in (0 .. 7) \union {62, 94, 110, 118} \union (120 .. 127)
    OBVIOUS
  <2> QED
    BY <2>1, ZeroBits DEF reserved
<1>4. ASSUME cmd' = [code |-> "RSTDAA", to |-> Devices, addr |-> {}]
      PROVE  Accepted'
  <2>1. cmd'.code = "RSTDAA" /\ cmd'.to = Devices
    BY <1>4
  <2> QED
    BY <2>1 DEF Accepted, None
<1>5. ASSUME LET to == {d \in Devices : ~Address(d).valid
                                     /\ Get(d, Static(d)) \notin reserved}
             IN to # {} /\ cmd' = [code |-> "SETAASA", to |-> to, addr |-> {}]
      PROVE  Accepted'
  <2>1. PICK to \in SUBSET Devices :
          /\ cmd' = [code |-> "SETAASA", to |-> to, addr |-> {}]
          /\ \A d \in to : Get(d, Static(d)) \notin reserved
    BY <1>5
  <2>2. \A d \in to : Get(d, Static(d))' # {}
    BY <1>2, <1>3, <2>1
  <2> QED
    <3>1. cmd'.code = "SETAASA" /\ cmd'.to = to
      BY <2>1
    <3> QED
      BY <2>2, <3>1 DEF Accepted, None
<1>6. ASSUME \E d \in Devices, a \in BusAddresses :
                \/ cmd' = [code |-> "SETDASA", to |-> {d}, addr |-> a]
                \/ cmd' = [code |-> "SETNEWDA", to |-> {d}, addr |-> a]
      PROVE  Accepted'
  <2>1. PICK d \in Devices, a \in BusAddresses :
          \/ cmd' = [code |-> "SETDASA", to |-> {d}, addr |-> a]
          \/ cmd' = [code |-> "SETNEWDA", to |-> {d}, addr |-> a]
    BY <1>6
  <2>2. cmd'.code \in {"SETDASA", "SETNEWDA"} /\ cmd'.to = {d} /\ cmd'.addr = a
    BY <2>1
  <2> QED
    BY <2>2 DEF Accepted, None
<1>7. Accepted'
  BY <1>4, <1>5, <1>6 DEF Accept
<1> QED
  BY <1>1, <1>7, QuietKeeps

LEMMA WithdrawKeeps == ASSUME BootInv, Withdraw PROVE BootInv'
<1>1. UNCHANGED <<args, pc, walk, step, got, csr, truth, dirty>> /\ cmd' = NoCommand
  BY DEF Withdraw
<1>2. Accepted'
  BY <1>1 DEF Accepted, NoCommand, None
<1> QED
  BY <1>1, <1>2, QuietKeeps

\* The fields that belong to the software are as before.
Steady ==
    /\ \A d \in Devices : /\ Get(d, Static(d))' = Get(d, Static(d))
                        /\ Get(d, StaticValid(d))' = Get(d, StaticValid(d))
    /\ \A n \in ControlFields : Get("CONTROL", n)' = Get("CONTROL", n)

\* A clock without a write of the software.
LEMMA ReadSteady ==
    ASSUME Accepted, NEW r, NEW a, a.op # "write", NEW lands \in BOOLEAN,
           Clock(r, a, lands)
    PROVE  Steady
BY DeviceNotWritten, ControlNotWritten DEF Steady

LEMMA SteadyProgress ==
    ASSUME Progress, Steady, \A i \in 5 .. 9 : Past(i)' => Past(i),
           pc' \in {"verify", "done"} => pc \in {"verify", "done"}
    PROVE  Progress'
<1>1. "STBY_CR_ENABLE_INIT" \in ControlFields /\ "TARGET_XACT_ENABLE" \in ControlFields
  BY DEF ControlFields
<1>2. \A d \in Devices : StaticStep(d) \in 5 .. 9 /\ StaticStep(d) + 1 \in 5 .. 9
  BY DEF StaticStep
<1> QED
  BY <1>1, <1>2 DEF Progress, Steady

LEMMA LandKeeps == ASSUME BootInv, Land PROVE BootInv'
<1>1. /\ args' = args /\ pc' = pc /\ walk' = walk /\ step' = step /\ got' = got
      /\ Clock(None, NoAccess, TRUE)
      /\ dirty' = [d \in Devices |-> IF d \in cmd.to THEN got # {} /\ Writes[step].reg = d
                                     ELSE dirty[d]]
      /\ truth' = [d \in Devices |-> IF d \in cmd.to THEN Left(d) ELSE truth[d]]
  BY DEF Land, Overlaps
<1>2. Writes' = Writes
  BY <1>1, WritesStay
<1>3. NoAccess.op # "write"
  BY DEF NoAccess
<1>4. Steady
  BY <1>1, <1>3, ReadSteady DEF BootInv
<1>5. Phase'
  BY <1>1, <1>2 DEF BootInv, Phase, Walked
<1>6. Progress'
  BY <1>1, <1>4, SteadyProgress DEF BootInv, Past
<1>7. Accepted'
  BY <1>1, <1>4, AcceptedClock DEF BootInv, Steady
<1>8. ASSUME NEW d \in Devices
      PROVE  DeviceInv(d)'
  BY <1>1, <1>3, Spared DEF BootInv, DeviceInv
<1>9. ASSUME got # {}, NEW d \in Devices, Writes[step].reg = d
      PROVE  /\ Unchanged(d, Static(d))' /\ Unchanged(d, StaticValid(d))'
             /\ Sane(d, UNION got)'
             /\ ~dirty'[d] => Unchanged(d, Dynamic(d))' /\ Unchanged(d, DynamicValid(d))'
  <2>1. /\ Unchanged(d, Static(d)) /\ Unchanged(d, StaticValid(d))
        /\ Sane(d, UNION got)
        /\ ~dirty[d] => Unchanged(d, Dynamic(d)) /\ Unchanged(d, DynamicValid(d))
    BY <1>9 DEF BootInv, GotWord
  <2>2. Unchanged(d, Static(d))' /\ Unchanged(d, StaticValid(d))'
    BY <1>1, <1>4, <2>1 DEF Unchanged, Steady
  <2>3. Sane(d, UNION got)'
    BY <1>1, <2>1 DEF Sane
  <2>4. ASSUME ~dirty'[d]
        PROVE  Unchanged(d, Dynamic(d))' /\ Unchanged(d, DynamicValid(d))'
    <3>1. d \notin cmd.to /\ ~dirty[d]
      BY <1>1, <1>9, <2>4
    <3>2. Get(d, Dynamic(d))' = Get(d, Dynamic(d))
          /\ Get(d, DynamicValid(d))' = Get(d, DynamicValid(d))
      BY <1>1, <1>3, <3>1, DeviceNotWritten DEF BootInv
    <3> QED
      BY <1>1, <2>1, <3>1, <3>2 DEF Unchanged
  <2> QED
    BY <2>2, <2>3, <2>4
<1>10. GotWord'
  <2>1. got # {} => pc = "write" /\ Writes[step].field # None
    BY DEF BootInv, GotWord
  <2>2. ASSUME got # {}, Writes[step].reg = "CONTROL", NEW n \in ControlFields
        PROVE  Unchanged("CONTROL", n)'
    BY <1>1, <1>4, <2>2 DEF BootInv, GotWord, Unchanged, Steady
  <2> QED
    BY <1>1, <1>2, <1>9, <2>1, <2>2 DEF GotWord
<1> QED
  BY <1>1, <1>5, <1>6, <1>7, <1>8, <1>10 DEF BootInv

LEMMA ReadCsrKeeps == ASSUME BootInv, ReadCsr PROVE BootInv'
<1> DEFINE r == Writes[step].reg
<1>1. /\ pc = "write" /\ Writes[step].field # None
      /\ got' = {ReadData(Regs[r], csr[r])} /\ Clock(r, Read, FALSE)
      /\ args' = args /\ pc' = pc /\ walk' = walk /\ step' = step /\ truth' = truth
      /\ dirty' = dirty
  BY DEF ReadCsr
<1>2. Writes' = Writes
  BY <1>1, WritesStay
<1>3. Read.op # "write"
  BY DEF Read
<1>4. Steady
  BY <1>1, <1>3, ReadSteady DEF BootInv
<1>5. Phase'
  BY <1>1, <1>2 DEF BootInv, Phase, Walked
<1>6. Progress'
  BY <1>1, <1>4, SteadyProgress DEF BootInv, Past
<1>7. Accepted'
  BY <1>1, <1>4, AcceptedClock DEF BootInv, Steady
<1>8. ASSUME NEW d \in Devices
      PROVE  DeviceInv(d)'
  BY <1>1, <1>3, Spared DEF BootInv, DeviceInv
<1>9. UNION got' = ReadData(Regs[r], csr[r])
  BY <1>1
<1>10. ASSUME r = "CONTROL", NEW n \in ControlFields
       PROVE  Unchanged("CONTROL", n)'
  <2>1. FieldOf(Regs["CONTROL"].fields[n], UNION got') = Get("CONTROL", n)
    <3>1. Alone(Regs["CONTROL"], n)
      BY ControlAlone
    <3> HIDE DEF r
    <3>2. UNION got' = ReadData(Regs["CONTROL"], csr["CONTROL"])
      BY <1>9, <1>10
    <3>3. FieldOf(Regs["CONTROL"].fields[n], ReadData(Regs["CONTROL"], csr["CONTROL"]))
            = FieldOf(Regs["CONTROL"].fields[n], csr["CONTROL"])
      BY <3>1, Shown
    <3> QED
      BY <3>2, <3>3 DEF Get
  <2> QED
    BY <1>4, <2>1 DEF Unchanged, Steady
<1>11. ASSUME NEW d \in Devices, r = d
       PROVE  /\ Unchanged(d, Static(d))' /\ Unchanged(d, StaticValid(d))'
              /\ Sane(d, UNION got)'
              /\ Unchanged(d, Dynamic(d))' /\ Unchanged(d, DynamicValid(d))'
  <2>1. \A n \in AddrFields(d) : FieldOf(Regs[d].fields[n], UNION got') = Get(d, n)
    <3> HIDE DEF r
    <3>1. UNION got' = ReadData(Regs[d], csr[d])
      BY <1>9, <1>11
    <3>2. ASSUME NEW n \in AddrFields(d)
          PROVE  FieldOf(Regs[d].fields[n], UNION got') = Get(d, n)
      <4>1. FieldOf(Regs[d].fields[n], ReadData(Regs[d], csr[d]))
              = FieldOf(Regs[d].fields[n], csr[d])
        BY DeviceAlone, Shown
      <4> QED
        BY <3>1, <4>1 DEF Get
    <3> QED
      BY <3>2
  <2>2. Get(d, Dynamic(d))' = Get(d, Dynamic(d))
        /\ Get(d, DynamicValid(d))' = Get(d, DynamicValid(d))
    BY <1>1, <1>3, DeviceNotWritten DEF BootInv
  <2>3. Get(d, Static(d))' = Get(d, Static(d))
        /\ Get(d, StaticValid(d))' = Get(d, StaticValid(d))
    BY <1>4 DEF Steady
  <2>4. Sane(d, UNION got)'
    BY <1>1, <2>1 DEF BootInv, DeviceInv, Sane, Get, AddrFields
  <2> QED
    BY <2>1, <2>2, <2>3, <2>4 DEF Unchanged, AddrFields
<1>12. GotWord'
  BY <1>1, <1>2, <1>10, <1>11 DEF GotWord
<1> QED
  BY <1>1, <1>5, <1>6, <1>7, <1>8, <1>12 DEF BootInv

\* What every write has in common.
LEMMA WriteAdvance ==
    ASSUME BootInv, NEW lands \in BOOLEAN, WriteCsr(lands)
    PROVE  /\ pc = "write" /\ step \in 1 .. Len(Writes) /\ args' = args
           /\ GotWord' /\ Phase'
           /\ \A i \in 5 .. 9 : Past(i)' => Past(i) \/ step = i
           /\ pc' \in {"verify", "done"} => step = Len(Writes)
<1>1. /\ pc = "write" /\ args' = args /\ walk' = walk /\ got' = {}
      /\ IF step = Len(Writes)
         THEN step' = 1 /\ pc' = IF args.verify THEN "verify" ELSE "done"
         ELSE step' = step + 1 /\ pc' = pc
  BY DEF WriteCsr
<1>2. Writes' = Writes
  BY <1>1, WritesStay
<1>3. Len(Writes) \in Nat /\ Len(Writes) >= 10 /\ step \in 1 .. Len(Writes)
  BY <1>1, WritesShape DEF BootInv, Phase
<1>4. GotWord'
  BY <1>1 DEF GotWord
<1>5. Phase'
  BY <1>1, <1>2, <1>3 DEF Phase
<1>6. \A i \in 5 .. 9 : Past(i)' => Past(i) \/ step = i
  BY <1>1, <1>3 DEF Past
<1>7. pc' \in {"verify", "done"} => step = Len(Writes)
  BY <1>1
<1> QED
  BY <1>1, <1>3, <1>4, <1>5, <1>6, <1>7

\* The addresses of a device that is not written.
LEMMA WriteSpares ==
    ASSUME BootInv, NEW lands \in BOOLEAN, WriteCsr(lands), NEW d \in Devices,
           Writes[step].reg # d
    PROVE  /\ DeviceInv(d)'
           /\ Get(d, Static(d))' = Get(d, Static(d))
           /\ Get(d, StaticValid(d))' = Get(d, StaticValid(d))
<1> DEFINE w == Writes[step]
           word == IF w.field = None THEN w.data
                   ELSE WithField(Regs[w.reg].fields[w.field], UNION got, w.data)
<1>1. /\ Clock(w.reg, Write(Bytes(word)), lands) /\ args' = args
      /\ truth'[d] = IF lands /\ d \in cmd.to THEN Left(d) ELSE truth[d]
      /\ dirty'[d] = IF lands /\ d \in cmd.to THEN got # {} /\ w.reg = d ELSE dirty[d]
  BY DEF WriteCsr, Overlaps
<1>2. DeviceInv(d) /\ Accepted
  BY DEF BootInv
<1>3. dirty'[d] \in BOOLEAN /\ (~dirty'[d] => (lands /\ d \in cmd.to) \/ ~dirty[d])
  BY <1>1, <1>2 DEF DeviceInv
<1> HIDE DEF word
<1>4. DeviceInv(d)'
  BY <1>1, <1>2, <1>3, Spared
<1>5. Get(d, Static(d))' = Get(d, Static(d))
      /\ Get(d, StaticValid(d))' = Get(d, StaticValid(d))
  BY <1>1, <1>2, DeviceNotWritten
<1> QED
  BY <1>4, <1>5

\* The fields of the mode register when it is not written.
LEMMA WriteSparesControl ==
    ASSUME NEW lands \in BOOLEAN, WriteCsr(lands), Writes[step].reg # "CONTROL",
           NEW n \in ControlFields
    PROVE  Get("CONTROL", n)' = Get("CONTROL", n)
BY ControlNotWritten DEF WriteCsr

LEMMA WriteTiming ==
    ASSUME BootInv, NEW lands \in BOOLEAN, WriteCsr(lands), step \in 1 .. 4,
           Writes[step].reg \in Timings
    PROVE  BootInv'
<1>1. \A d \in Devices : Writes[step].reg # d
  BY DEF Timings, Devices
<1>2. Writes[step].reg # "CONTROL"
  BY DEF Timings
<1>3. Steady
  BY <1>1, <1>2, WriteSpares, WriteSparesControl DEF Steady
<1>4. Len(Writes) >= 10
  BY WritesShape DEF BootInv
<1>5. Progress'
  BY <1>3, <1>4, WriteAdvance, SteadyProgress DEF BootInv
<1>6. Accepted'
  BY <1>3, AcceptedClock DEF BootInv, Steady, WriteCsr
<1> QED
  BY <1>1, <1>5, <1>6, WriteAdvance, WriteSpares DEF BootInv

LEMMA WriteControl ==
    ASSUME BootInv, NEW lands \in BOOLEAN, WriteCsr(lands),
           \/ step = 5 /\ Writes[step] = StandbyMode
           \/ step > 9 /\ step = Len(Writes) /\ Writes[step] = EnableXact
    PROVE  BootInv'
<1> DEFINE w == Writes[step]
<1>0. PICK n \in ControlFields, data \in {{1}, One} :
        /\ w = Set("CONTROL", n, data)
        /\ step = 5 => n = "STBY_CR_ENABLE_INIT" /\ data = {1}
        /\ step # 5 => n = "TARGET_XACT_ENABLE" /\ data = One
        /\ step # 5 => step = Len(Writes)
  BY DEF StandbyMode, EnableXact, ControlFields
<1> DEFINE f == Regs["CONTROL"].fields[n]
           word == WithField(f, UNION got, data)
<1>1. w.reg = "CONTROL" /\ w.field = n /\ w.data = data /\ n # None
  BY <1>0, ControlAlone DEF Set
<1>2. \A d \in Devices : w.reg # d
  BY <1>1 DEF Devices
<1>3. got # {} /\ Clock("CONTROL", Write(Bytes(word)), lands)
  BY <1>1 DEF WriteCsr
<1>4. \A m \in ControlFields : FieldOf(Regs["CONTROL"].fields[m], UNION got) = Get("CONTROL", m)
  BY <1>1, <1>3 DEF BootInv, GotWord, Unchanged
<1>5. Fits(f, data)
  <2>1. n \in {"STBY_CR_ENABLE_INIT", "TARGET_XACT_ENABLE"}
    BY DEF ControlFields
  <2> QED
    BY <1>0, <2>1, WritesFit
<1>6. Get("CONTROL", n)' = data
  <2>1. FieldOf(f, Bytes(word)) = data
    BY <1>5, ControlAlone, FieldSet
  <2> HIDE DEF word
  <2> QED
    BY <1>3, <2>1, ControlWritten
<1>7. ASSUME NEW m \in ControlFields \ {n}
      PROVE  Get("CONTROL", m)' = Get("CONTROL", m)
  <2>1. n \in DOMAIN Regs["CONTROL"].fields \ {m} /\ Alone(Regs["CONTROL"], m)
    BY ControlAlone DEF Alone
  <2>2. FieldOf(Regs["CONTROL"].fields[m], Bytes(word))
          = FieldOf(Regs["CONTROL"].fields[m], UNION got)
    <3> DEFINE r == Regs["CONTROL"]
    <3>1. Alone(r, m) /\ n \in DOMAIN r.fields \ {m} /\ Fits(r.fields[n], data)
      BY <1>5, <2>1
    <3> HIDE DEF r
    <3>2. FieldOf(r.fields[m], Bytes(WithField(r.fields[n], UNION got, data)))
            = FieldOf(r.fields[m], UNION got)
      BY <3>1, FieldSpared, SMTT(40)
    <3> QED
      BY <3>2 DEF r
  <2> HIDE DEF word
  <2> QED
    BY <1>3, <1>4, <2>2, ControlWritten
<1>8. \A d \in Devices : /\ DeviceInv(d)'
                        /\ Get(d, Static(d))' = Get(d, Static(d))
                        /\ Get(d, StaticValid(d))' = Get(d, StaticValid(d))
  BY <1>2, WriteSpares
<1>9. Progress'
  <2>1. Len(Writes) \in Nat /\ Len(Writes) >= 10
    BY WritesShape DEF BootInv
  <2>2. ASSUME Past(5)'
        PROVE  Get("CONTROL", "STBY_CR_ENABLE_INIT")' = {1}
    <3>1. Past(5) \/ step = 5
      BY <2>2, WriteAdvance
    <3>2. CASE step = 5
      BY <1>0, <1>6, <3>2
    <3>3. CASE step # 5
      <4>1. "STBY_CR_ENABLE_INIT" \in ControlFields \ {n}
        BY <1>0, <3>3 DEF ControlFields
      <4>2. Get("CONTROL", "STBY_CR_ENABLE_INIT") = {1}
        BY <3>1, <3>3 DEF BootInv, Progress
      <4> QED
        BY <1>7, <4>1, <4>2
    <3> QED
      BY <3>2, <3>3
  <2>3. ASSUME pc' \in {"verify", "done"}
        PROVE  Get("CONTROL", "TARGET_XACT_ENABLE")' = One
    <3>1. step = Len(Writes)
      BY <2>3, WriteAdvance
    <3>2. n = "TARGET_XACT_ENABLE" /\ data = One
      BY <1>0, <2>1, <3>1
    <3> QED
      BY <1>6, <3>2
  <2>4. ASSUME NEW d \in Devices
        PROVE  /\ Past(StaticStep(d))' => Get(d, Static(d))' = Wanted(d)
               /\ Past(StaticStep(d) + 1)' => Get(d, StaticValid(d))' = One
    <3>1. /\ StaticStep(d) \in {6, 8} /\ StaticStep(d) + 1 \in {7, 9}
          /\ StaticStep(d) \in 5 .. 9 /\ StaticStep(d) + 1 \in 5 .. 9
      BY DEF StaticStep
    <3>2. step = 5 \/ step > 9
      BY <2>1
    <3>3. step # StaticStep(d) /\ step # StaticStep(d) + 1
      BY <3>1, <3>2, WriteAdvance
    <3>4. Past(StaticStep(d))' => Past(StaticStep(d))
      BY <3>1, <3>3, WriteAdvance
    <3>5. Past(StaticStep(d) + 1)' => Past(StaticStep(d) + 1)
      BY <3>1, <3>3, WriteAdvance
    <3> QED
      BY <1>8, <3>4, <3>5 DEF BootInv, Progress
  <2> QED
    BY <2>2, <2>3, <2>4 DEF Progress, StaticStep
<1>10. Accepted'
  <2> HIDE DEF word
  <2> QED
    BY <1>3, <1>8, AcceptedClock DEF BootInv
<1> QED
  BY <1>8, <1>9, <1>10, WriteAdvance DEF BootInv

\* A field write of device e: its own field takes the data, the others what the
\* read-modify-write has read.
LEMMA WriteDeviceFields ==
    ASSUME BootInv, NEW lands \in BOOLEAN, WriteCsr(lands), NEW e \in Devices,
           NEW n \in AddrFields(e), NEW data, Fits(Regs[e].fields[n], data),
           Writes[step] = Set(e, n, data)
    PROVE  /\ got # {}
           /\ Get(e, n)' = data
           /\ \A m \in AddrFields(e) \ {n} :
                 Get(e, m)' = FieldOf(Regs[e].fields[m], UNION got)
<1> DEFINE r == Regs[e]
           word == WithField(r.fields[n], UNION got, data)
<1>1. Writes[step].reg = e /\ Writes[step].field = n /\ Writes[step].data = data /\ n # None
  BY DeviceFields DEF Set
<1>2. got # {} /\ Clock(e, Write(Bytes(word)), lands)
  BY <1>1 DEF WriteCsr
<1>3. Accepted
  BY DEF BootInv
<1>4. FieldOf(r.fields[n], Bytes(word)) = data
  BY DeviceAlone, FieldSet
<1>5. ASSUME NEW m \in AddrFields(e) \ {n}
      PROVE  FieldOf(r.fields[m], Bytes(word)) = FieldOf(r.fields[m], UNION got)
  <2>1. Alone(r, m) /\ n \in DOMAIN r.fields \ {m} /\ Fits(r.fields[n], data)
    BY DeviceAlone, DeviceFields
  <2> HIDE DEF r
  <2> QED
    BY <2>1, FieldSpared
<1> HIDE DEF word
<1>6. \A m \in AddrFields(e) : Get(e, m)' = FieldOf(r.fields[m], Bytes(word))
  BY <1>2, <1>3, DeviceWritten
<1> QED
  BY <1>2, <1>4, <1>5, <1>6

LEMMA AddressRecord ==
    ASSUME NEW x \in Addresses
    PROVE  /\ x = [addr |-> x.addr, valid |-> x.valid]
           /\ x.addr \in SUBSET (0 .. 6) /\ x.valid \in BOOLEAN
           /\ \A a : [x EXCEPT !.addr = a] = [addr |-> a, valid |-> x.valid]
<1>1. x \in [addr : SUBSET (0 .. 6), valid : BOOLEAN]
  BY DEF Addresses
<1>2. x = [addr |-> x.addr, valid |-> x.valid]
  BY <1>1
<1>3. x.addr \in SUBSET (0 .. 6) /\ x.valid \in BOOLEAN
  BY <1>1
<1>4. ASSUME NEW a
      PROVE  [x EXCEPT !.addr = a] = [addr |-> a, valid |-> x.valid]
  BY <1>1
<1> QED
  BY <1>2, <1>3, <1>4

LEMMA WriteDevice ==
    ASSUME BootInv, NEW lands \in BOOLEAN, WriteCsr(lands), NEW e \in Devices,
           NEW n \in AddrFields(e), NEW data, Writes[step] = Set(e, n, data),
           \/ n = Static(e) /\ data = Wanted(e) /\ step = StaticStep(e)
           \/ n = StaticValid(e) /\ data = One /\ step = StaticStep(e) + 1
           \/ /\ step > 9 /\ step < Len(Writes) /\ args.dyn[e] # {}
              /\ \/ n = Dynamic(e) /\ data = args.dyn[e]
                 \/ n = DynamicValid(e) /\ data = One
    PROVE  BootInv'
<1>1. Writes[step].reg = e /\ Writes[step].field = n /\ Writes[step].data = data
  BY DEF Set
<1>2. Fits(Regs[e].fields[n], data)
  <2>1. Wanted(e) \in SUBSET (0 .. 6) /\ args.dyn[e] \in SUBSET (0 .. 6)
    BY WantedTyped, ArgsTyped DEF BootInv
  <2> QED
    BY <2>1, WritesFit
<1>3. /\ got # {} /\ Get(e, n)' = data
      /\ \A m \in AddrFields(e) \ {n} :
            Get(e, m)' = FieldOf(Regs[e].fields[m], UNION got)
  BY <1>2, WriteDeviceFields
<1>4. /\ Unchanged(e, Static(e)) /\ Unchanged(e, StaticValid(e)) /\ Sane(e, UNION got)
      /\ ~dirty[e] => Unchanged(e, Dynamic(e)) /\ Unchanged(e, DynamicValid(e))
  BY <1>1, <1>3 DEF BootInv, GotWord
<1>5. /\ truth[e] \in Addresses /\ dirty[e] \in BOOLEAN
      /\ ~dirty[e] => Address(e) = truth[e]
  BY DEF BootInv, DeviceInv
<1>6. /\ {Static(e), StaticValid(e), Dynamic(e), DynamicValid(e)} = AddrFields(e)
      /\ Static(e) # StaticValid(e) /\ Static(e) # Dynamic(e)
      /\ Static(e) # DynamicValid(e) /\ StaticValid(e) # Dynamic(e)
      /\ StaticValid(e) # DynamicValid(e) /\ Dynamic(e) # DynamicValid(e)
  BY DeviceFields DEF AddrFields
<1>7. /\ n # Static(e) => Get(e, Static(e))' = Get(e, Static(e))
      /\ n # StaticValid(e) => Get(e, StaticValid(e))' = Get(e, StaticValid(e))
  BY <1>3, <1>4, <1>6 DEF Unchanged
<1>8. /\ dirty'[e] = IF lands /\ e \in cmd.to THEN TRUE ELSE dirty[e]
      /\ LET left == IF lands /\ e \in cmd.to THEN Left(e) ELSE truth[e]
         IN truth'[e] = IF n = Dynamic(e) THEN [left EXCEPT !.addr = data]
                        ELSE IF n = DynamicValid(e) THEN [addr |-> left.addr, valid |-> TRUE]
                        ELSE left
      /\ args' = args
  BY <1>1, <1>3 DEF WriteCsr, Overlaps
<1>9. DeviceInv(e)'
  <2> DEFINE left == IF lands /\ e \in cmd.to THEN Left(e) ELSE truth[e]
  <2>1. left \in Addresses
    BY <1>5, LeftSane DEF BootInv
  <2>2. /\ [left EXCEPT !.addr = data] = [addr |-> data, valid |-> left.valid]
        /\ left = [addr |-> left.addr, valid |-> left.valid]
        /\ left.addr \in SUBSET (0 .. 6) /\ left.valid \in BOOLEAN
    BY <2>1, AddressRecord
  <2>3. args.dyn[e] \in SUBSET (0 .. 6)
    BY ArgsTyped DEF BootInv
  <2>4. truth'[e] = IF n = Dynamic(e) THEN [addr |-> data, valid |-> left.valid]
                    ELSE IF n = DynamicValid(e) THEN [addr |-> left.addr, valid |-> TRUE]
                    ELSE [addr |-> left.addr, valid |-> left.valid]
    BY <1>8, <2>2
  <2>5. n = Dynamic(e) => data \in SUBSET (0 .. 6)
    BY <1>6, <2>3
  <2>6. truth'[e] \in Addresses
    BY <2>2, <2>4, <2>5 DEF Addresses
  <2>7. dirty'[e] \in BOOLEAN
    BY <1>5, <1>8
  <2>8. Sane(e, csr[e])'
    <3>1. CASE n \in {Dynamic(e), DynamicValid(e)}
      <4>1. args'.dyn[e] # {}
        BY <1>6, <1>8, <3>1
      <4> QED
        BY <4>1 DEF Sane
    <3>2. CASE n \in {Static(e), StaticValid(e)}
      <4>1. /\ Get(e, Dynamic(e))' = FieldOf(Regs[e].fields[Dynamic(e)], UNION got)
            /\ Get(e, DynamicValid(e))' = FieldOf(Regs[e].fields[DynamicValid(e)], UNION got)
        BY <1>3, <1>6, <3>2
      <4> QED
        BY <1>4, <1>8, <4>1 DEF Sane, Get
    <3> QED
      BY <1>6, <3>1, <3>2
  <2>9. ASSUME ~dirty'[e]
        PROVE  Address(e)' = truth'[e]
    <3>1. ~dirty[e] /\ left = truth[e]
      BY <1>8, <2>9
    <3>2. /\ Get(e, Dynamic(e)) = left.addr
          /\ (Get(e, DynamicValid(e)) = One) = left.valid
      BY <1>5, <3>1 DEF Address
    <3>3. /\ n # Dynamic(e) => Get(e, Dynamic(e))' = Get(e, Dynamic(e))
          /\ n # DynamicValid(e) =>
               Get(e, DynamicValid(e))' = Get(e, DynamicValid(e))
      BY <1>3, <1>4, <1>6, <3>1 DEF Unchanged
    <3>4. n = DynamicValid(e) => data = One
      BY <1>6
    <3> HIDE DEF left
    <3>5. Get(e, Dynamic(e))' = IF n = Dynamic(e) THEN data ELSE left.addr
      BY <1>3, <3>2, <3>3
    <3>6. (Get(e, DynamicValid(e))' = One) = IF n = DynamicValid(e) THEN TRUE ELSE left.valid
      BY <1>3, <2>2, <3>2, <3>3, <3>4
    <3>7. Address(e)' = [addr |-> Get(e, Dynamic(e))', valid |-> Get(e, DynamicValid(e))' = One]
      BY DEF Address
    <3> QED
      BY <1>6, <2>2, <2>4, <3>5, <3>6, <3>7
  <2> QED
    BY <2>6, <2>7, <2>8, <2>9 DEF DeviceInv
<1>10. ASSUME NEW d \in Devices \ {e}
       PROVE  /\ DeviceInv(d)'
              /\ Get(d, Static(d))' = Get(d, Static(d))
              /\ Get(d, StaticValid(d))' = Get(d, StaticValid(d))
  BY <1>1, WriteSpares
<1>11. \A m \in ControlFields : Get("CONTROL", m)' = Get("CONTROL", m)
  BY <1>1, DeviceFields, WriteSparesControl
<1>12. Progress'
  <2>1. Len(Writes) \in Nat /\ Len(Writes) >= 10 /\ step \in 1 .. Len(Writes)
    BY WritesShape, WriteAdvance DEF BootInv
  <2>2. \A d \in Devices :
           /\ StaticStep(d) \in {6, 8} /\ StaticStep(d) + 1 \in {7, 9}
           /\ d # e => StaticStep(d) # StaticStep(e)
    BY DEF StaticStep, Devices
  <2>3. step # 5 /\ step # Len(Writes)
    BY <2>1, <2>2
  <2>4. Past(5)' => Get("CONTROL", "STBY_CR_ENABLE_INIT")' = {1}
    <3>1. Past(5)' => Past(5)
      BY <2>3, WriteAdvance
    <3> QED
      BY <1>11, <3>1 DEF BootInv, Progress, ControlFields
  <2>5. pc' \notin {"verify", "done"}
    BY <2>3, WriteAdvance
  <2>6. ASSUME NEW d \in Devices, d # e
        PROVE  /\ Past(StaticStep(d))' => Get(d, Static(d))' = Wanted(d)
               /\ Past(StaticStep(d) + 1)' => Get(d, StaticValid(d))' = One
    <3>1. step # StaticStep(d) /\ step # StaticStep(d) + 1
      BY <2>2, <2>6
    <3>2. Past(StaticStep(d))' => Past(StaticStep(d))
      BY <2>2, <3>1, WriteAdvance
    <3>3. Past(StaticStep(d) + 1)' => Past(StaticStep(d) + 1)
      BY <2>2, <3>1, WriteAdvance
    <3> QED
      BY <1>10, <2>6, <3>2, <3>3 DEF BootInv, Progress
  <2>7. /\ Past(StaticStep(e))' => Get(e, Static(e))' = Wanted(e)
        /\ Past(StaticStep(e) + 1)' => Get(e, StaticValid(e))' = One
    <3>1. Past(StaticStep(e))' => Past(StaticStep(e)) \/ step = StaticStep(e)
      BY <2>2, WriteAdvance
    <3>2. Past(StaticStep(e) + 1)' => Past(StaticStep(e) + 1) \/ step = StaticStep(e) + 1
      BY <2>2, WriteAdvance
    <3>3. /\ Past(StaticStep(e)) => Get(e, Static(e)) = Wanted(e)
          /\ Past(StaticStep(e) + 1) => Get(e, StaticValid(e)) = One
      BY DEF BootInv, Progress
    <3>4. /\ n = Static(e) => data = Wanted(e)
          /\ n = StaticValid(e) => data = One
          /\ step = StaticStep(e) => n = Static(e)
          /\ step = StaticStep(e) + 1 => n = StaticValid(e)
      BY <1>6, <2>2
    <3>5. Past(StaticStep(e))' => Get(e, Static(e))' = Wanted(e)
      BY <1>3, <1>7, <3>1, <3>3, <3>4
    <3>6. Past(StaticStep(e) + 1)' => Get(e, StaticValid(e))' = One
      BY <1>3, <1>7, <3>2, <3>3, <3>4
    <3> QED
      BY <3>5, <3>6
  <2> QED
    BY <2>4, <2>5, <2>6, <2>7 DEF Progress, StaticStep
<1>13. Accepted'
  <2>1. Get(e, Static(e))' = Get(e, Static(e)) \/ Get(e, Static(e))' # {}
    <3>1. n = Static(e) => data = Wanted(e)
      BY <1>6
    <3> QED
      BY <1>3, <1>7, <3>1, WantedTyped
  <2> QED
    BY <1>10, <2>1, AcceptedClock DEF BootInv, WriteCsr
<1> QED
  BY <1>9, <1>10, <1>12, <1>13, WriteAdvance DEF BootInv

LEMMA WriteCsrKeeps ==
    ASSUME BootInv, NEW lands \in BOOLEAN, WriteCsr(lands)
    PROVE  BootInv'
<1>1. step \in 1 .. Len(Writes) /\ args \in Calls
  BY WriteAdvance DEF BootInv
<1>2. CASE step \in 1 .. 4 /\ Writes[step].reg \in Timings
  BY <1>2, WriteTiming
<1>3. CASE \/ step = 5 /\ Writes[step] = StandbyMode
           \/ step > 9 /\ step = Len(Writes) /\ Writes[step] = EnableXact
  BY <1>3, WriteControl
<1>4. ASSUME NEW d \in Devices,
             step = StaticStep(d) /\ Writes[step] = Set(d, Static(d), Wanted(d))
      PROVE  BootInv'
  BY <1>4, WriteDevice DEF AddrFields
<1>5. ASSUME NEW d \in Devices,
             step = StaticStep(d) + 1 /\ Writes[step] = Set(d, StaticValid(d), One)
      PROVE  BootInv'
  BY <1>5, WriteDevice DEF AddrFields
<1>6. ASSUME NEW d \in Devices,
             step > 9 /\ step < Len(Writes) /\ IsDynamicWrite(d, Writes[step])
      PROVE  BootInv'
  BY <1>6, WriteDevice DEF AddrFields, IsDynamicWrite
<1> QED
  BY <1>1, <1>2, <1>3, <1>4, <1>5, <1>6, AtHand

\* The verification finds what was written.
LEMMA CheckHolds ==
    ASSUME BootInv, pc = "verify"
    PROVE  FieldOf(Regs[Checks[step].reg].fields[Checks[step].field],
                   ReadData(Regs[Checks[step].reg], csr[Checks[step].reg]))
             = Checks[step].data
<1>1. step \in 1 .. 6
  BY DEF BootInv, Phase
<1>2. "main" \in Devices /\ "virt" \in Devices
      /\ StaticStep("main") = 6 /\ StaticStep("virt") = 8
  BY DEF Devices, StaticStep
<1>3. \A i \in 5 .. 9 : Past(i)
  BY DEF Past
<1>4. \A d \in Devices : Get(d, Static(d)) = Wanted(d) /\ Get(d, StaticValid(d)) = One
  BY <1>3 DEF BootInv, Progress, StaticStep
<1>5. Get("CONTROL", "STBY_CR_ENABLE_INIT") = {1}
      /\ Get("CONTROL", "TARGET_XACT_ENABLE") = One
  BY <1>3 DEF BootInv, Progress
<1>6. ASSUME NEW d \in Devices, NEW n \in AddrFields(d)
      PROVE  FieldOf(Regs[d].fields[n], ReadData(Regs[d], csr[d])) = Get(d, n)
  BY DeviceAlone, Shown DEF Get
<1>7. ASSUME NEW n \in ControlFields
      PROVE  FieldOf(Regs["CONTROL"].fields[n], ReadData(Regs["CONTROL"], csr["CONTROL"]))
               = Get("CONTROL", n)
  BY ControlAlone, Shown DEF Get
<1>8. CASE step = 1
  <2>1. Checks[1].reg = "CONTROL" /\ Checks[1].field = "STBY_CR_ENABLE_INIT"
        /\ Checks[1].data = {1}
    BY ChecksShape DEF StandbyMode, Set
  <2> QED
    BY <1>5, <1>7, <1>8, <2>1 DEF ControlFields
<1>9. CASE step = 2
  <2>1. Checks[2].reg = "main" /\ Checks[2].field = Static("main")
        /\ Checks[2].data = Wanted("main")
    BY ChecksShape DEF Set
  <2> QED
    BY <1>2, <1>4, <1>6, <1>9, <2>1 DEF AddrFields
<1>10. CASE step = 3
  <2>1. Checks[3].reg = "main" /\ Checks[3].field = StaticValid("main")
        /\ Checks[3].data = One
    BY ChecksShape DEF Set
  <2> QED
    BY <1>2, <1>4, <1>6, <1>10, <2>1 DEF AddrFields
<1>11. CASE step = 4
  <2>1. Checks[4].reg = "virt" /\ Checks[4].field = Static("virt")
        /\ Checks[4].data = Wanted("virt")
    BY ChecksShape DEF Set
  <2> QED
    BY <1>2, <1>4, <1>6, <1>11, <2>1 DEF AddrFields
<1>12. CASE step = 5
  <2>1. Checks[5].reg = "virt" /\ Checks[5].field = StaticValid("virt")
        /\ Checks[5].data = One
    BY ChecksShape DEF Set
  <2> QED
    BY <1>2, <1>4, <1>6, <1>12, <2>1 DEF AddrFields
<1>13. CASE step = 6
  <2>1. Checks[6].reg = "CONTROL" /\ Checks[6].field = "TARGET_XACT_ENABLE"
        /\ Checks[6].data = One
    BY ChecksShape DEF EnableXact, Set
  <2> QED
    BY <1>5, <1>7, <1>13, <2>1 DEF ControlFields
<1> QED
  BY <1>1, <1>8, <1>9, <1>10, <1>11, <1>12, <1>13

LEMMA VerifyReadKeeps == ASSUME BootInv, VerifyRead PROVE BootInv'
<1>1. /\ pc = "verify" /\ args' = args /\ walk' = walk /\ got' = got /\ truth' = truth
      /\ dirty' = dirty /\ Clock(Checks[step].reg, Read, FALSE)
  BY DEF VerifyRead
<1>2. got = {} /\ step \in 1 .. 6
  BY <1>1 DEF BootInv, GotWord, Phase
<1>3. \/ pc' = "done" /\ step' = step
      \/ pc' = pc /\ step' = step + 1 /\ step # 6
  BY <1>1, CheckHolds, ChecksShape DEF VerifyRead
<1>4. Read.op # "write"
  BY DEF Read
<1>5. Steady
  BY <1>1, <1>4, ReadSteady DEF BootInv
<1>6. Phase'
  BY <1>1, <1>2, <1>3 DEF Phase
<1>7. Progress'
  <2>1. \A i \in 5 .. 9 : Past(i)' => Past(i)
    BY <1>1 DEF Past
  <2> QED
    BY <1>1, <1>5, <2>1, SteadyProgress DEF BootInv
<1>8. Accepted'
  BY <1>1, <1>5, AcceptedClock DEF BootInv, Steady
<1>9. ASSUME NEW d \in Devices
      PROVE  DeviceInv(d)'
  BY <1>1, <1>4, Spared DEF BootInv, DeviceInv
<1>10. GotWord'
  BY <1>1, <1>2 DEF GotWord
<1> QED
  BY <1>1, <1>6, <1>7, <1>8, <1>9, <1>10 DEF BootInv

LEMMA BootStep == BootInv /\ [Next]_vars => BootInv'
<1> SUFFICES ASSUME BootInv, [Next]_vars PROVE BootInv'
  OBVIOUS
<1>1. CASE Discover
  BY <1>1, DiscoverKeeps
<1>2. CASE ReadCsr
  BY <1>2, ReadCsrKeeps
<1>3. CASE WriteCsr(FALSE) \/ WriteCsr(TRUE)
  BY <1>3, WriteCsrKeeps
<1>4. CASE VerifyRead
  BY <1>4, VerifyReadKeeps
<1>5. CASE Accept
  BY <1>5, AcceptKeeps
<1>6. CASE Land
  BY <1>6, LandKeeps
<1>7. CASE Withdraw
  BY <1>7, WithdrawKeeps
<1>8. CASE UNCHANGED vars
  <2>1. UNCHANGED <<args, pc, walk, step, got, csr, truth, dirty>> /\ cmd' = cmd
    BY <1>8 DEF vars
  <2>2. Accepted'
    BY <2>1 DEF BootInv, Accepted, Get
  <2> QED
    BY <2>1, <2>2, QuietKeeps
<1> QED
  BY <1>1, <1>2, <1>3, <1>4, <1>5, <1>6, <1>7, <1>8 DEF Next, Software, Controller

-----------------------------------------------------------------------------
(***************************************************************************)
(* The theorems.                                                            *)
(***************************************************************************)

\* The invariant holds of every boot.
THEOREM BootInvariance == Spec => []BootInv
BY BootInit, BootStep, PTL DEF Spec

\* discover_ec finds what it expects, and the assertions of umbrella_stby_init
\* hold, whatever a controller sends from the moment the target answers.
THEOREM BootVerifies == Spec => []VerifyPasses
<1>1. BootInv => VerifyPasses
  BY DEF BootInv, Phase, VerifyPasses
<1> QED
  BY <1>1, BootInvariance, PTL

\* A device without a requested dynamic address has no valid empty one.
THEOREM NeverEmpty == Spec => []NoEmptyAddress
<1>1. BootInv => NoEmptyAddress
  BY DEF BootInv, DeviceInv, Sane, NoEmptyAddress, Address, Get
<1> QED
  BY <1>1, BootInvariance, PTL

\* An address that a CCC has left survives every field write that it does not
\* meet.
THEOREM AddressKept == Spec => []FollowsBus
<1>1. BootInv => FollowsBus
  BY DEF BootInv, DeviceInv, FollowsBus
<1> QED
  BY <1>1, BootInvariance, PTL

=============================================================================
