------------------------------- MODULE Bound -------------------------------
(***************************************************************************)
(* The register file of a context (lps-core/include/lps_arch.h), the       *)
(* offsets at which the assembly finds its words (arch_asm.h), and the     *)
(* DASICS bounds kept in it (bound.c).                                     *)
(*                                                                         *)
(* The file is a function from byte offsets to values.  A configuration    *)
(* word has one nibble per bound: memcfg is kept as 16 nibbles, and an int *)
(* of the C code as 8, because the sign of the int decides what the upper  *)
(* half of the 64-bit word becomes.                                        *)
(***************************************************************************)
EXTENDS Integers, Sequences

LIBCFG_W == 1
LIBCFG_R == 2
LIBCFG_V == 8
JMPCFG_V == 1

NMEM == 16
NJMP == 4

-----------------------------------------------------------------------------
(* struct LPSRegs, in words of 8 bytes *)

GPRs == <<"zero", "ra", "sp", "gp", "tp", "t0", "t1", "t2", "s0", "s1",
          "a0", "a1", "a2", "a3", "a4", "a5", "a6", "a7",
          "s2", "s3", "s4", "s5", "s6", "s7", "s8", "s9", "s10", "s11",
          "t3", "t4", "t5", "t6">>

GPR == {GPRs[i] : i \in DOMAIN GPRs}

LPSRegs ==
  << <<"host_sp", 1>>, <<"host_gp", 1>>, <<"host_tp", 1>>, <<"_pad", 1>> >>
  \o [i \in DOMAIN GPRs |-> <<GPRs[i], 1>>]
  \o << <<"f", 32>>, <<"uepc", 1>>, <<"ucause", 1>>, <<"utval", 1>>, <<"dfreason", 1>>,
        <<"memcfg", 1>>, <<"membound", 2 * NMEM>>, <<"jmpcfg", 1>>, <<"jmpbound", 2 * NJMP>> >>

\* The words before the i-th field.
WordsBefore[i \in DOMAIN LPSRegs] ==
  IF i = 1 THEN 0 ELSE WordsBefore[i - 1] + LPSRegs[i - 1][2]

offsetof == [f \in {LPSRegs[i][1] : i \in DOMAIN LPSRegs} |->
               8 * WordsBefore[CHOOSE i \in DOMAIN LPSRegs : LPSRegs[i][1] = f]]

membound(idx, k) == offsetof["membound"] + 16 * idx + 8 * k
jmpbound(idx, k) == offsetof["jmpbound"] + 16 * idx + 8 * k

-----------------------------------------------------------------------------
(* arch_asm.h: the same words as the assembly names them *)

OFFSET_KSP == 0
OFFSET_KGP == 8
OFFSET_KTP == 16
OFFSET == [r \in GPR |-> 32 + 8 * ((CHOOSE i \in DOMAIN GPRs : GPRs[i] = r) - 1)]
OFFSET_UEPC == 544
OFFSET_UCAUSE == 552
OFFSET_UTVAL == 560
OFFSET_DFREN == 568
OFFSET_MEMCFG == 576
OFFSET_MEMBOUNDLO(i) == OFFSET_MEMCFG + 8 * (1 + 2 * i)
OFFSET_MEMBOUNDHI(i) == OFFSET_MEMCFG + 8 * (2 + 2 * i)
OFFSET_JMPCFG == OFFSET_MEMBOUNDHI(NMEM - 1) + 8
OFFSET_JMPBOUNDLO(i) == OFFSET_JMPCFG + 8 * (1 + 2 * i)
OFFSET_JMPBOUNDHI(i) == OFFSET_JMPCFG + 8 * (2 + 2 * i)

\* struct KRegs, and CONTEXT_RA .. CONTEXT_S11: what kswitch saves and loads.
KRegs == {"ra", "sp", "s0", "s1", "s2", "s3", "s4", "s5", "s6", "s7", "s8", "s9", "s10", "s11"}

\* ucsr.h: the numbers of the DASICS registers.
CSR_DLCFG == \h880
CSR_DLBOUND(i, k) == \h890 + 2 * i + k
CSR_DJBOUND(i, k) == \h8c0 + 2 * i + k
CSR_DJCFG == \h8c8

\* The static assertions of arch_asm.c.
LayoutAgrees ==
  /\ offsetof["host_sp"] = OFFSET_KSP /\ offsetof["host_gp"] = OFFSET_KGP
  /\ offsetof["host_tp"] = OFFSET_KTP /\ offsetof["zero"] = OFFSET["zero"]
  /\ offsetof["f"] = OFFSET["t6"] + 8
  /\ offsetof["uepc"] = OFFSET_UEPC /\ offsetof["utval"] = OFFSET_UTVAL
  /\ offsetof["dfreason"] = OFFSET_DFREN
  /\ offsetof["memcfg"] = OFFSET_MEMCFG /\ membound(0, 0) = OFFSET_MEMBOUNDLO(0)
  /\ offsetof["jmpcfg"] = OFFSET_JMPCFG /\ jmpbound(0, 0) = OFFSET_JMPBOUNDLO(0)

ASSUME LayoutAssumption ==
  LayoutAgrees /\ {offsetof["membound"], offsetof["jmpbound"]} \subseteq Nat

\* The words of the file that anything reads or writes: all but _pad and the
\* floating-point words, which have no reader and no writer that is called.
Words == {8 * k : k \in (0 .. OFFSET_JMPBOUNDHI(NJMP - 1) \div 8) \ ({3} \cup 36 .. 67)}

\* The registers lps_load_dasics writes, and the word each is loaded with.
DasicsCSRs ==
  {CSR_DLCFG, CSR_DJCFG} \cup {CSR_DLBOUND(i, k) : i \in 0 .. NMEM - 1, k \in 0 .. 1}
                         \cup {CSR_DJBOUND(i, k) : i \in 0 .. NJMP - 1, k \in 0 .. 1}

DasicsSource ==
  [n \in DasicsCSRs |->
     LET m == (n - CSR_DLBOUND(0, 0)) \div 2
         j == (n - CSR_DJBOUND(0, 0)) \div 2
     IN  CASE n = CSR_DLCFG -> OFFSET_MEMCFG
           [] n = CSR_DJCFG -> OFFSET_JMPCFG
           [] m \in 0 .. NMEM - 1 -> IF n % 2 = 0 THEN OFFSET_MEMBOUNDLO(m) ELSE OFFSET_MEMBOUNDHI(m)
           [] OTHER -> IF n % 2 = 0 THEN OFFSET_JMPBOUNDLO(j) ELSE OFFSET_JMPBOUNDHI(j)]

lps_load_dasics(m) == [n \in DasicsCSRs |-> m[DasicsSource[n]]]

-----------------------------------------------------------------------------
(* bound.c *)

\* v << (idx * 4) as an int, defined for idx < 8.
ShiftInt(v, idx) == [i \in 0 .. 7 |-> IF i = idx THEN v ELSE 0]

NotInt(x) == [i \in 0 .. 7 |-> 15 - x[i]]

\* The conversion of an int to uint64_t.
Widen(x) == [i \in 0 .. 15 |-> IF i < 8 THEN x[i] ELSE IF x[7] >= 8 THEN 15 ELSE 0]

NoCfg == [i \in 0 .. 15 |-> 0]

\* cfg & ~(0xf << offset); the nibbles of the mask are 0 or 15.
MaskOut(cfg, idx) ==
  LET mask == Widen(NotInt(ShiftInt(15, idx)))
  IN  [i \in 0 .. 15 |-> IF mask[i] = 15 THEN cfg[i] ELSE 0]

\* cfg | (v << offset); where both nibbles are set one of them is 15.
OrIn(cfg, v, idx) ==
  LET w == Widen(ShiftInt(v, idx))
  IN  [i \in 0 .. 15 |-> IF cfg[i] = 0 THEN w[i] ELSE IF w[i] = 0 THEN cfg[i] ELSE 15]

\* Bug form: the old configuration is not masked out.
SetCfg_unmasked(cfg, v, idx) == OrIn(cfg, v, idx)

SetCfg(cfg, v, idx) == OrIn(MaskOut(cfg, idx), v, idx)

\* A value in the file is a tuple that begins with its kind.
Cfg(c) == <<"cfg", c>>
CfgOf(v) == IF v[1] = "cfg" THEN v[2] ELSE NoCfg
Zero == <<"zero">>

lps_membound_set(m, idx, prot, low, high) ==
  [m EXCEPT ![membound(idx, 0)] = low, ![membound(idx, 1)] = high,
            ![offsetof["memcfg"]] = Cfg(SetCfg(CfgOf(@), prot + LIBCFG_V, idx))]

lps_membound_clear(m, idx) ==
  [m EXCEPT ![membound(idx, 0)] = Zero, ![membound(idx, 1)] = Zero,
            ![offsetof["memcfg"]] = Cfg(MaskOut(CfgOf(@), idx))]

lps_jmpbound_set(m, idx, low, high) ==
  [m EXCEPT ![jmpbound(idx, 0)] = low, ![jmpbound(idx, 1)] = high,
            ![offsetof["jmpcfg"]] = Cfg(SetCfg(CfgOf(@), JMPCFG_V, idx))]

lps_jmpbound_clear(m, idx) ==
  [m EXCEPT ![jmpbound(idx, 0)] = Zero, ![jmpbound(idx, 1)] = Zero,
            ![offsetof["jmpcfg"]] = Cfg(MaskOut(CfgOf(@), idx))]

=============================================================================
