-------------------------------- MODULE Boot --------------------------------
(***************************************************************************)
(* The boot sequence of the device software (lib_i3c_top/boot.py): the walk *)
(* over the extended capabilities, the register writes of boot_init and     *)
(* umbrella_stby_init and their verification.  The target answers the bus   *)
(* as soon as STBY_CR_ENABLE_INIT says so, which is the first field that    *)
(* umbrella_stby_init writes; from then on the CCCs of a controller write   *)
(* the same address registers (csri.sv).                                    *)
(***************************************************************************)
EXTENDS Bus2Csr, Sequences

CONSTANTS
    static_addr, virtual_static_addr, \* arguments of boot_init, as words
    Calls,          \* the other arguments, see args
    BusAddresses    \* words that a controller assigns

ASSUME AddressAssumption ==
    /\ {static_addr, virtual_static_addr} \union BusAddresses
          \subseteq (SUBSET (0 .. 6)) \ {{}}
    /\ Calls \subseteq [dyn : [{"main", "virt"} -> SUBSET (0 .. 6)], timings : SUBSET (0 .. 19),
                       verify : BOOLEAN, discover : BOOLEAN]

VARIABLES
    args,   \* dyn: the requested dynamic addresses, {} for none; timings: the
            \* value of the timing registers; verify; discover: discover_ec first
    pc,     \* discover, write, verify, done or failed
    walk,   \* discover_ec: offset, cap_ids and ec_offsets
    step,   \* the write or check at hand
    got,    \* the word that a read-modify-write has read, as a set
    csr,    \* the registers
    cmd,    \* a CCC that was accepted and has not reached the registers yet
    truth,  \* the address that CCCs and requested addresses left, per device
    dirty   \* a CCC met a read-modify-write of the device's register

vars == <<args, pc, walk, step, got, csr, cmd, truth, dirty>>

None == "none"
NoCommand == [code |-> None, to |-> {}, addr |-> {}]
Devices == {"main", "virt"}

Regs == [T_R |-> T_R_REG, T_F |-> T_F_REG, T_HD_DAT |-> T_HD_DAT_REG,
         T_SU_DAT |-> T_SU_DAT_REG, CONTROL |-> STBY_CR_CONTROL,
         main |-> STBY_CR_DEVICE_ADDR, virt |-> STBY_CR_VIRT_DEVICE_ADDR]

\* The fields of the address register of device d.
Static(d) == IF d = "main" THEN "STATIC_ADDR" ELSE "VIRT_STATIC_ADDR"
StaticValid(d) == IF d = "main" THEN "STATIC_ADDR_VALID"
                                ELSE "VIRT_STATIC_ADDR_VALID"
Dynamic(d) == IF d = "main" THEN "DYNAMIC_ADDR" ELSE "VIRT_DYNAMIC_ADDR"
DynamicValid(d) == IF d = "main" THEN "DYNAMIC_ADDR_VALID"
                                 ELSE "VIRT_DYNAMIC_ADDR_VALID"
Get(r, n) == FieldOf(Regs[r].fields[n], csr[r])
One == {0}
Address(d) == [addr |-> Get(d, Dynamic(d)), valid |-> Get(d, DynamicValid(d)) = One]

-----------------------------------------------------------------------------
(* What the software writes and checks. *)

Set(r, n, data) == [reg |-> r, field |-> n, data |-> data]
Whole(r, data) == Set(r, None, data)

\* boot_init: timings are zero unless given.
TimingWrites ==
    <<Whole("T_R", args.timings), Whole("T_F", args.timings),
      Whole("T_HD_DAT", args.timings), Whole("T_SU_DAT", args.timings)>>

StaticWrites(d, a) == <<Set(d, Static(d), a), Set(d, StaticValid(d), One)>>
DynamicWrites(d) ==
    IF args.dyn[d] = {} THEN <<>>
    ELSE <<Set(d, Dynamic(d), args.dyn[d]), Set(d, DynamicValid(d), One)>>

StandbyMode == Set("CONTROL", "STBY_CR_ENABLE_INIT", {1})  \* 2
EnableXact == Set("CONTROL", "TARGET_XACT_ENABLE", One)

Writes ==
    TimingWrites \o <<StandbyMode>> \o StaticWrites("main", static_addr)
    \o StaticWrites("virt", virtual_static_addr)
    \o DynamicWrites("main") \o DynamicWrites("virt") \o <<EnableXact>>

Checks ==
    <<StandbyMode>> \o StaticWrites("main", static_addr)
    \o StaticWrites("virt", virtual_static_addr) \o <<EnableXact>>

\* mask(16) and the base offset belong to EXT_CAPS_SECTION_OFFSET, a register
\* of the controller that this map lacks; the software asserts 0x100.
expected_cap_ids == <<192, 18, 196, 193, 2>>
Header(offset) == CHOOSE r \in reg_map : r.base_addr = offset
HeaderField(r, n) == r.fields[n].reset

-----------------------------------------------------------------------------
(* The hardware side. *)

\* csri.sv ties the next value of these to zero and has no write enable.
TiedLow == {"PENDING_RX_NACK", "HANDOFF_DELAY_NACK", "ACR_FSM_OP_SELECT",
            "PRIME_ACCEPT_GETACCCR"}

standby_enabled == Get("CONTROL", "STBY_CR_ENABLE_INIT") = {1}

\* What a CCC that lands leaves: RSTDAA clears both devices, SETAASA takes the
\* static addresses of that clock, SETDASA and SETNEWDA bring an address.
Left(d) ==
    CASE cmd.code = "RSTDAA" -> [addr |-> {}, valid |-> FALSE]
      [] cmd.code = "SETAASA" -> [addr |-> Get(d, Static(d)), valid |-> TRUE]
      [] OTHER -> [addr |-> cmd.addr, valid |-> TRUE]

\* The fields that the hardware writes in a clock, by register.
HwWrites(r, lands) ==
    IF r = "CONTROL" THEN [n \in TiedLow |-> {}]
    ELSE IF lands /\ r \in cmd.to
         THEN [n \in {Dynamic(r), DynamicValid(r)} |->
                 IF n = Dynamic(r) THEN Place(Regs[r].fields[n], Left(r).addr)
                 ELSE IF Left(r).valid THEN Regs[r].fields[n].bits ELSE {}]
    ELSE NoHw

\* A clock with access a of the software to register r; lands: the accepted
\* CCC reaches the registers in it.
Clock(r, a, lands) ==
    /\ lands => cmd # NoCommand
    /\ csr' = [x \in DOMAIN Regs |->
                 RegNext(Regs[x], csr[x], IF x = r THEN a ELSE NoAccess, HwWrites(x, lands))]
    /\ cmd' = IF lands THEN NoCommand ELSE cmd

\* A command that meets a read-modify-write of the device's register may be
\* undone, or undo it; the next command that meets none is clean again.
Overlaps(lands) ==
    dirty' = [d \in Devices |-> IF lands /\ d \in cmd.to
                               THEN got # {} /\ Writes[step].reg = d ELSE dirty[d]]

\* Addresses that SETAASA does not take over; the mutant forgets zero.
reserved_but_zero == {Bits(a) : a \in (1 .. 7) \union (120 .. 127)}
reserved == {Bits(a) : a \in (0 .. 7) \union {62, 94, 110, 118} \union (120 .. 127)}

\* A controller's command, as decided by ccc.sv.  It lands later: a clock for
\* the broadcasts, a byte for SETDASA and SETNEWDA.
Accept ==
    /\ cmd = NoCommand /\ standby_enabled
    /\ \/ cmd' = [code |-> "RSTDAA", to |-> Devices, addr |-> {}]
       \/ LET to == {d \in Devices : ~Address(d).valid /\ Get(d, Static(d)) \notin reserved}
          IN to # {} /\ cmd' = [code |-> "SETAASA", to |-> to, addr |-> {}]
       \/ \E d \in Devices, a \in BusAddresses :
             /\ Get(d, StaticValid(d)) = One /\ ~Address(d).valid
             /\ cmd' = [code |-> "SETDASA", to |-> {d}, addr |-> a]
       \/ \E d \in Devices, a \in BusAddresses :
             /\ Address(d).valid
             /\ cmd' = [code |-> "SETNEWDA", to |-> {d}, addr |-> a]
    /\ UNCHANGED <<args, pc, walk, step, got, csr, truth, dirty>>

Land == /\ Clock(None, NoAccess, TRUE) /\ Overlaps(TRUE)
        /\ truth' = [d \in Devices |-> IF d \in cmd.to THEN Left(d) ELSE truth[d]]
        /\ UNCHANGED <<args, pc, walk, step, got>>

\* SETDASA or SETNEWDA without the byte.
Withdraw == /\ cmd.code \in {"SETDASA", "SETNEWDA"}
            /\ cmd' = NoCommand
            /\ UNCHANGED <<args, pc, walk, step, got, csr, truth, dirty>>

-----------------------------------------------------------------------------
(* The software. *)

Init ==
    /\ args \in Calls
    /\ pc = IF args.discover THEN "discover" ELSE "write"
    /\ walk = [offset |-> start_addr, ids |-> <<>>, offsets |-> <<>>]
    /\ step = 1
    /\ got = {}
    /\ \E c \in ResetWords(STBY_CR_CONTROL) :  \* the others are fixed by reset
          csr = [r \in DOMAIN Regs |->
                   IF r = "CONTROL" THEN c ELSE CHOOSE w \in ResetWords(Regs[r]) : TRUE]
    /\ cmd = NoCommand
    /\ truth = [d \in Devices |-> [addr |-> {}, valid |-> FALSE]]
    /\ dirty = [d \in Devices |-> FALSE]

\* discover_ec: one header.  Its offset is recorded after the advance.
Discover ==
    LET r == Header(walk.offset)
        id == HeaderField(r, "CAP_ID")
        next == walk.offset + 4 * HeaderField(r, "CAP_LENGTH")
    IN /\ pc = "discover"
       /\ IF id # 0
          THEN /\ walk' = [offset |-> next, ids |-> Append(walk.ids, id),
                           offsets |-> Append(walk.offsets, next)]
               /\ UNCHANGED pc
          ELSE /\ walk' = [walk EXCEPT !.offset = next]
               /\ pc' = IF walk.ids = expected_cap_ids THEN "write" ELSE "failed"
       /\ UNCHANGED <<args, step, got, csr, cmd, truth, dirty>>

\* The first half of write_csr_field.
ReadCsr ==
    LET w == Writes[step]
    IN /\ pc = "write" /\ w.field # None /\ got = {}
       /\ got' = {ReadData(Regs[w.reg], csr[w.reg])}
       /\ Clock(w.reg, Read, FALSE)
       /\ UNCHANGED <<args, pc, walk, step, truth, dirty>>

\* A write ends at its register in one clock, and so may a command.
WriteCsr(lands) ==
    LET w == Writes[step]
        word == IF w.field = None THEN w.data
                ELSE WithField(Regs[w.reg].fields[w.field], UNION got, w.data)
    IN /\ pc = "write" /\ (w.field = None \/ got # {})
       /\ FitsWord(word)
       /\ Clock(w.reg, Write(Bytes(word)), lands)
       /\ got' = {}
       /\ IF step = Len(Writes)
          THEN step' = 1 /\ pc' = IF args.verify THEN "verify" ELSE "done"
          ELSE step' = step + 1 /\ UNCHANGED pc
       /\ truth' = [d \in Devices |->
                      LET left == IF lands /\ d \in cmd.to THEN Left(d) ELSE truth[d]
                      IN IF d # w.reg THEN left
                         ELSE IF w.field = Dynamic(d) THEN [left EXCEPT !.addr = w.data]
                         ELSE IF w.field = DynamicValid(d) THEN [addr |-> left.addr, valid |-> TRUE]
                         ELSE left]
       /\ Overlaps(lands)
       /\ UNCHANGED <<args, walk>>

VerifyRead ==
    LET c == Checks[step]
    IN /\ pc = "verify"
       /\ Clock(c.reg, Read, FALSE)
       /\ IF FieldOf(Regs[c.reg].fields[c.field], ReadData(Regs[c.reg], csr[c.reg])) # c.data
          THEN pc' = "failed" /\ UNCHANGED step
          ELSE IF step = Len(Checks) THEN pc' = "done" /\ UNCHANGED step
          ELSE step' = step + 1 /\ UNCHANGED pc
       /\ UNCHANGED <<args, walk, got, truth, dirty>>

Software == Discover \/ ReadCsr \/ WriteCsr(FALSE) \/ WriteCsr(TRUE) \/ VerifyRead
Controller == Accept \/ Land \/ Withdraw
Next == Software \/ Controller

Spec == Init /\ [][Next]_vars

-----------------------------------------------------------------------------
(* Properties. *)

\* The walk finds the expected capabilities, and the verification of boot_init
\* passes whatever the controller does meanwhile: no CCC and no field write
\* disturbs the static addresses, the mode or the enable (boot.py).
VerifyPasses == pc # "failed"

\* A device that was given no dynamic address by the software never has a valid
\* dynamic address that nobody assigned, though the field writes of its static
\* address write the dynamic one back as it was read (write_csr_field).
NoEmptyAddress ==
    \A d \in Devices : args.dyn[d] = {} /\ Address(d).valid => Address(d).addr # {}

\* An address that a CCC has left stays what it is until the next command:
\* later field writes of the register keep it, unless the command met one.
FollowsBus == \A d \in Devices : ~dirty[d] => Address(d) = truth[d]

=============================================================================
