------------------------------ MODULE Bus2Csr ------------------------------
(***************************************************************************)
(* One register under I3CCSR.sv, and the accesses that the test software    *)
(* makes to it (common/bus2csr.py).  Words and data are sets of bits, as in *)
(* RegMap.                                                                  *)
(***************************************************************************)
EXTENDS RegMap

\* An access in a clock: none, a read, or a write of a word.
NoAccess == [op |-> "none", data |-> {}]
Read == [op |-> "read", data |-> {}]
Write(w) == [op |-> "write", data |-> w]

\* wset: any write sets the field; the attribute has no key in reg_map.
wset == {"HANDOFF_DEEP_SLEEP"}

(***************************************************************************)
(* The next value of field n of register r at value v: software comes      *)
(* first, and whatever the hardware offers in the same clock is lost.  hw   *)
(* maps the fields that the hardware writes in this clock to their value    *)
(* (in place); hwclr is such a write of zeros.                              *)
(***************************************************************************)
FieldNext(r, n, v, a, hw) ==
    LET f == r.fields[n]
        own == v \intersect f.bits
    IN IF a.op = "read" /\ f.rclr THEN {}
       ELSE IF a.op = "write" /\ f.sw \in {"rw", "w"}
            THEN IF f.woclr THEN own \ a.data
                 ELSE IF n \in wset THEN f.bits
                 ELSE a.data \intersect f.bits
       ELSE IF n \in DOMAIN hw THEN hw[n] ELSE own

RegNext(r, v, a, hw) ==
    UNION {FieldNext(r, n, v, a, hw) : n \in DOMAIN r.fields}

\* What a read returns: write-only fields and gaps read as zero.
ReadData(r, v) ==
    v \intersect UNION {r.fields[n].bits :
                         n \in {m \in DOMAIN r.fields : r.fields[m].sw # "w"}}

NoHw == <<>>

\* The values after reset: a field without a reset value may hold anything.
ResetWords(r) ==
    LET set == {n \in DOMAIN r.fields : r.fields[n].reset # Unset}
        fixed == UNION {{b + r.fields[n].low : b \in Bits(r.fields[n].reset)} :
                        n \in set}
        open == UNION {r.fields[n].bits : n \in DOMAIN r.fields \ set}
    IN {fixed \union u : u \in SUBSET open}

-----------------------------------------------------------------------------
(* The field accessors of FrontBusTestInterface. *)

\* data at the place of field f; not masked.
Place(f, data) == {b + f.low : b \in data}

\* read_csr_field: the field of a word that was read.
FieldOf(f, w) == {b - f.low : b \in w \intersect f.bits}

\* Mutants of WithField: the rest of the word is lost; the mask has no upper end.
WithFieldOnly(f, w, data) == Place(f, data)
WithFieldAbove(f, w, data) == (w \ (f.low .. 31)) \union Place(f, data)

\* write_csr_field: the word that is written back for a word that was read.
WithField(f, w, data) == (w \ f.bits) \union Place(f, data)

\* The assertion in int2bytes passes, since log2 is compared with <=, for
\* 2^32 too, and the bytes drop that bit.
FitsWord(w) == w \subseteq WordBits \/ w = {32}
Bytes(w) == w \intersect WordBits
=============================================================================
