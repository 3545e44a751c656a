----------------------------- MODULE CtxProofs -----------------------------
(***************************************************************************)
(* Proofs about module Ctx for any number of workers, tasks, traps and     *)
(* calls of bound.c.  The properties hold of every program that does not   *)
(* move a task that has run to another worker.                             *)
(***************************************************************************)
EXTENDS Ctx, TLAPS

\* No task that has run is stolen.
NoMigration == ~Steals \/ "mc" \notin Hosts

-----------------------------------------------------------------------------
(* Registers and words *)

\* The registers the runtime names are registers of a context.
LEMMA Names ==
  /\ KRegs \subseteq Regs /\ {"ra", "sp", "gp", "tp", "t0", "s0", "s1", "a0"} \subseteq Regs
  /\ {"ra", "sp", "s0", "s1"} \subseteq KRegs
<1>1. DOMAIN GPRs = 1 .. 32
  BY DEF GPRs
<1>2. /\ GPRs[2] = "ra" /\ GPRs[3] = "sp" /\ GPRs[4] = "gp" /\ GPRs[5] = "tp"
      /\ GPRs[6] = "t0" /\ GPRs[9] = "s0" /\ GPRs[10] = "s1" /\ GPRs[11] = "a0"
      /\ GPRs[19] = "s2" /\ GPRs[20] = "s3" /\ GPRs[21] = "s4" /\ GPRs[22] = "s5"
      /\ GPRs[23] = "s6" /\ GPRs[24] = "s7" /\ GPRs[25] = "s8" /\ GPRs[26] = "s9"
      /\ GPRs[27] = "s10" /\ GPRs[28] = "s11"
  BY DEF GPRs
<1>3. KRegs \cup {"ra", "sp", "gp", "tp", "t0", "s0", "s1", "a0"} \subseteq GPR
  BY <1>1, <1>2 DEF GPR, KRegs
<1> QED
  BY <1>3 DEF Regs, KRegs

\* Every register has a word of its own, above the runtime's registers and
\* below the trap's.
LEMMA RegWords ==
  /\ \A q \in Regs : OFFSET[q] \in Words /\ OFFSET[q] \in Nat /\ 32 <= OFFSET[q] /\ OFFSET[q] < 288
  /\ \A q, r \in Regs : OFFSET[q] = OFFSET[r] => q = r
<1>1. DOMAIN GPRs = 1 .. 32
  BY DEF GPRs
<1>2. ASSUME NEW q \in GPR
      PROVE  \E i \in 1 .. 32 : GPRs[i] = q /\ OFFSET[q] = 32 + 8 * (i - 1)
  <2>1. PICK i : i = CHOOSE j \in DOMAIN GPRs : GPRs[j] = q
    OBVIOUS
  <2>2. i \in 1 .. 32 /\ GPRs[i] = q
    BY <1>1, <2>1 DEF GPR
  <2> QED
    BY <2>1, <2>2 DEF OFFSET
<1>3. OFFSET_JMPBOUNDHI(NJMP - 1) \div 8 = 113
  BY DEF OFFSET_JMPBOUNDHI, OFFSET_JMPCFG, OFFSET_MEMBOUNDHI, OFFSET_MEMCFG, NJMP, NMEM
<1>4. ASSUME NEW i \in 1 .. 32 PROVE 32 + 8 * (i - 1) \in Words
  <2>1. 32 + 8 * (i - 1) = 8 * (i + 3) /\ i + 3 \in (0 .. 113) \ ({3} \cup 36 .. 67)
    OBVIOUS
  <2> QED
    BY <1>3, <2>1 DEF Words
<1>5. \A q \in Regs : OFFSET[q] \in Words /\ OFFSET[q] \in Nat /\ 32 <= OFFSET[q] /\ OFFSET[q] < 288
  BY <1>2, <1>4 DEF Regs
<1>6. ASSUME NEW q \in Regs, NEW r \in Regs, OFFSET[q] = OFFSET[r] PROVE q = r
  <2>1. PICK i \in 1 .. 32 : GPRs[i] = q /\ OFFSET[q] = 32 + 8 * (i - 1)
    BY <1>2 DEF Regs
  <2>2. PICK j \in 1 .. 32 : GPRs[j] = r /\ OFFSET[r] = 32 + 8 * (j - 1)
    BY <1>2 DEF Regs
  <2>3. 32 + 8 * (i - 1) = 32 + 8 * (j - 1)
    BY <1>6, <2>1, <2>2, Zenon
  <2>4. i = j
    BY <2>3
  <2> QED
    BY <2>1, <2>2, <2>4
<1> QED
  BY <1>5, <1>6

\* The words of bounds and configurations, as bound.c and the assembly name
\* them, lie above all the others.
LEMMA BoundWords ==
  /\ OFFSET_MEMCFG = 576 /\ OFFSET_JMPCFG = 840
  /\ offsetof["memcfg"] = 576 /\ offsetof["jmpcfg"] = 840
  /\ \A i \in 0 .. NMEM - 1 : /\ OFFSET_MEMBOUNDLO(i) = 584 + 16 * i /\ membound(i, 0) = 584 + 16 * i
                              /\ OFFSET_MEMBOUNDHI(i) = 592 + 16 * i /\ membound(i, 1) = 592 + 16 * i
  /\ \A i \in 0 .. NJMP - 1 : /\ OFFSET_JMPBOUNDLO(i) = 848 + 16 * i /\ jmpbound(i, 0) = 848 + 16 * i
                              /\ OFFSET_JMPBOUNDHI(i) = 856 + 16 * i /\ jmpbound(i, 1) = 856 + 16 * i
<1>1. OFFSET_MEMCFG = 576 /\ OFFSET_JMPCFG = 840
  BY DEF OFFSET_MEMCFG, OFFSET_JMPCFG, OFFSET_MEMBOUNDHI, NMEM
<1>2. \A i \in 0 .. NMEM - 1 : OFFSET_MEMBOUNDLO(i) = 584 + 16 * i /\ OFFSET_MEMBOUNDHI(i) = 592 + 16 * i
  BY <1>1 DEF OFFSET_MEMBOUNDLO, OFFSET_MEMBOUNDHI, NMEM
<1>3. \A i \in 0 .. NJMP - 1 : OFFSET_JMPBOUNDLO(i) = 848 + 16 * i /\ OFFSET_JMPBOUNDHI(i) = 856 + 16 * i
  BY <1>1 DEF OFFSET_JMPBOUNDLO, OFFSET_JMPBOUNDHI, NJMP
<1>4. /\ offsetof["memcfg"] = 576 /\ offsetof["jmpcfg"] = 840
      /\ membound(0, 0) = 584 /\ jmpbound(0, 0) = 848
  <2>1. 0 \in 0 .. NMEM - 1 /\ 0 \in 0 .. NJMP - 1
    BY DEF NMEM, NJMP
  <2> QED
    BY <1>1, <1>2, <1>3, <2>1, LayoutAssumption DEF LayoutAgrees
<1>5. offsetof["membound"] = 584 /\ offsetof["jmpbound"] = 848
  BY <1>4, LayoutAssumption DEF membound, jmpbound
<1>6. \A i \in 0 .. NMEM - 1 : membound(i, 0) = 584 + 16 * i /\ membound(i, 1) = 592 + 16 * i
  BY <1>5 DEF membound, NMEM
<1>7. \A i \in 0 .. NJMP - 1 : jmpbound(i, 0) = 848 + 16 * i /\ jmpbound(i, 1) = 856 + 16 * i
  BY <1>5 DEF jmpbound, NJMP
<1> QED
  BY <1>1, <1>2, <1>3, <1>4, <1>6, <1>7

\* The other words, and that all of them are words of the file.
LEMMA TrapWords ==
  /\ {OFFSET_KSP, OFFSET_KGP, OFFSET_KTP, OFFSET_UEPC, OFFSET_UCAUSE, OFFSET_DFREN,
      OFFSET_MEMCFG, OFFSET_JMPCFG} \subseteq Words
  /\ \A i \in 0 .. NMEM - 1, k \in 0 .. 1 : membound(i, k) \in Words
  /\ \A i \in 0 .. NJMP - 1, k \in 0 .. 1 : jmpbound(i, k) \in Words
  /\ Words \subseteq Nat
<1>1. OFFSET_JMPBOUNDHI(NJMP - 1) \div 8 = 113
  BY DEF OFFSET_JMPBOUNDHI, OFFSET_JMPCFG, OFFSET_MEMBOUNDHI, OFFSET_MEMCFG, NJMP, NMEM
<1>2. Words = {8 * k : k \in (0 .. 113) \ ({3} \cup 36 .. 67)}
  BY <1>1 DEF Words
<1>3. \A k \in (0 .. 113) \ ({3} \cup 36 .. 67) : 8 * k \in Words
  BY <1>2
<1>4. ASSUME NEW k \in {0, 1, 2, 68, 69, 71, 72, 105} PROVE 8 * k \in Words
  <2>1. k \in (0 .. 113) \ ({3} \cup 36 .. 67)
    OBVIOUS
  <2> QED
    BY <1>3, <2>1
<1>5. {0, 8, 16, 544, 552, 568, 576, 840} \subseteq Words
  <2>1. ASSUME NEW o \in {0, 8, 16, 544, 552, 568, 576, 840}
        PROVE  \E k \in {0, 1, 2, 68, 69, 71, 72, 105} : o = 8 * k
    <3>1. /\ 8 * 0 = 0 /\ 8 * 1 = 8 /\ 8 * 2 = 16 /\ 8 * 68 = 544 /\ 8 * 69 = 552 /\ 8 * 71 = 568
          /\ 8 * 72 = 576 /\ 8 * 105 = 840
      OBVIOUS
    <3> QED
      BY <3>1
  <2> QED
    BY <1>4, <2>1
<1>6. ASSUME NEW i \in 0 .. NMEM - 1, NEW k \in 0 .. 1 PROVE membound(i, k) \in Words
  <2>1. 73 + 2 * i + k \in (0 .. 113) \ ({3} \cup 36 .. 67)
    BY DEF NMEM
  <2>2. k = 0 \/ k = 1
    OBVIOUS
  <2>3. membound(i, k) = 8 * (73 + 2 * i + k)
    BY <2>2, BoundWords DEF NMEM
  <2> QED
    BY <1>3, <2>1, <2>3
<1>7. ASSUME NEW i \in 0 .. NJMP - 1, NEW k \in 0 .. 1 PROVE jmpbound(i, k) \in Words
  <2>1. 106 + 2 * i + k \in (0 .. 113) \ ({3} \cup 36 .. 67)
    BY DEF NJMP
  <2>2. k = 0 \/ k = 1
    OBVIOUS
  <2>3. jmpbound(i, k) = 8 * (106 + 2 * i + k)
    BY <2>2, BoundWords DEF NJMP
  <2> QED
    BY <1>3, <2>1, <2>3
<1>8. Words \subseteq Nat
  BY <1>2
<1> QED
  BY <1>5, <1>6, <1>7, <1>8, BoundWords
     DEF OFFSET_KSP, OFFSET_KGP, OFFSET_KTP, OFFSET_UEPC, OFFSET_UCAUSE, OFFSET_DFREN

\* The words s are the words m but for what lies below the bounds.
SameBounds(m, s) == DOMAIN s = Words /\ \A o \in Words : o >= 576 => s[o] = m[o]

\* The runtime's registers in them are the same.
SameBase(m, s) ==
  s[OFFSET_KSP] = m[OFFSET_KSP] /\ s[OFFSET_KGP] = m[OFFSET_KGP] /\ s[OFFSET_KTP] = m[OFFSET_KTP]

\* SAVE_ALL saves every register in its word and leaves bounds and the
\* runtime's registers alone.
LEMMA SaveFacts ==
  ASSUME NEW m, DOMAIN m = Words, NEW r, NEW c, c.uscratch = r["s0"],
         NEW s, s = SaveWords(m, r, c)
  PROVE  /\ SameBounds(m, s) /\ SameBase(m, s)
         /\ \A q \in Regs : s[OFFSET[q]] = r[q]
         /\ s[OFFSET_UEPC] = c.uepc /\ s[OFFSET_UCAUSE] = c.ucause /\ s[OFFSET_DFREN] = c.dfreason
<1>1. PICK g : g = SaveGPR(m, r)
  OBVIOUS
<1>2. DOMAIN g = Words /\ \A o \in Words : g[o] = IF o \in DOMAIN RegAt THEN r[RegAt[o]] ELSE m[o]
  BY <1>1 DEF SaveGPR
<1>3. ASSUME NEW q \in Regs PROVE OFFSET[q] \in DOMAIN RegAt /\ RegAt[OFFSET[q]] = q
  <2>1. OFFSET[q] \in {OFFSET[p] : p \in Regs}
    OBVIOUS
  <2>2. PICK p : p = CHOOSE u \in Regs : OFFSET[u] = OFFSET[q]
    OBVIOUS
  <2>3. p \in Regs /\ OFFSET[p] = OFFSET[q]
    BY <2>2
  <2>4. p = q
    BY <2>3, RegWords
  <2> QED
    BY <2>1, <2>2, <2>4 DEF RegAt
<1>4. \A q \in Regs : g[OFFSET[q]] = r[q]
  BY <1>2, <1>3, RegWords
<1>5. \A o \in DOMAIN RegAt : 32 <= o /\ o < 288
  BY RegWords DEF RegAt
<1>6. \A o \in Words : ~(32 <= o /\ o < 288) => g[o] = m[o]
  BY <1>2, <1>5
<1>7. s = [g EXCEPT ![OFFSET["s0"]] = c.uscratch, ![544] = c.uepc, ![552] = c.ucause, ![568] = c.dfreason]
  BY <1>1 DEF SaveWords, OFFSET_UEPC, OFFSET_UCAUSE, OFFSET_DFREN
<1>8. OFFSET["s0"] \in Words /\ 32 <= OFFSET["s0"] /\ OFFSET["s0"] < 288 /\ OFFSET["s0"] \in Nat
      /\ {0, 8, 16, 544, 552, 568} \subseteq Words
  BY RegWords, Names, TrapWords
     DEF OFFSET_KSP, OFFSET_KGP, OFFSET_KTP, OFFSET_UEPC, OFFSET_UCAUSE, OFFSET_DFREN
<1>9. DOMAIN s = Words /\ s[544] = c.uepc /\ s[552] = c.ucause /\ s[568] = c.dfreason
  BY <1>2, <1>7, <1>8
<1>10. s[OFFSET["s0"]] = r["s0"]
  BY <1>2, <1>7, <1>8
<1>11. \A o \in Words \ {OFFSET["s0"], 544, 552, 568} : s[o] = g[o]
  BY <1>2, <1>7
<1>12. ASSUME NEW q \in Regs PROVE s[OFFSET[q]] = r[q]
  <2>1. CASE q = "s0"
    BY <1>10, <2>1
  <2>2. CASE q # "s0"
    <3>1. OFFSET[q] \in Words /\ 32 <= OFFSET[q] /\ OFFSET[q] < 288 /\ OFFSET[q] \in Nat
          /\ OFFSET[q] # OFFSET["s0"]
      BY <2>2, RegWords, Names
    <3> QED
      BY <1>4, <1>11, <3>1
  <2> QED
    BY <2>1, <2>2
<1>13. \A o \in Words : o >= 576 \/ o \in {0, 8, 16} => s[o] = m[o]
  BY <1>6, <1>8, <1>11, TrapWords
<1> QED
  BY <1>8, <1>9, <1>12, <1>13
     DEF SameBounds, SameBase, OFFSET_KSP, OFFSET_KGP, OFFSET_KTP, OFFSET_UEPC, OFFSET_UCAUSE, OFFSET_DFREN

\* The stores of lps_ctx_entry.
LEMMA EntryFacts ==
  ASSUME NEW m, DOMAIN m = Words, NEW r, NEW s, s = EntryWords(m, r)
  PROVE  /\ SameBounds(m, s) /\ \A q \in Regs : s[OFFSET[q]] = m[OFFSET[q]]
         /\ s[OFFSET_UEPC] = m[OFFSET_UEPC]
         /\ s[OFFSET_KSP] = r["sp"] /\ s[OFFSET_KGP] = r["gp"] /\ s[OFFSET_KTP] = r["tp"]
<1>1. s = [m EXCEPT ![0] = r["sp"], ![8] = r["gp"], ![16] = r["tp"]]
  BY DEF EntryWords, OFFSET_KSP, OFFSET_KGP, OFFSET_KTP
<1>2. {0, 8, 16, 544} \subseteq Words /\ Words \subseteq Nat
  BY TrapWords DEF OFFSET_KSP, OFFSET_KGP, OFFSET_KTP, OFFSET_UEPC
<1>3. /\ DOMAIN s = Words /\ s[0] = r["sp"] /\ s[8] = r["gp"] /\ s[16] = r["tp"]
      /\ \A o \in Words \ {0, 8, 16} : s[o] = m[o]
  BY <1>1, <1>2
<1>4. \A q \in Regs : s[OFFSET[q]] = m[OFFSET[q]]
  BY <1>3, RegWords
<1> QED
  BY <1>2, <1>3, <1>4 DEF SameBounds, OFFSET_KSP, OFFSET_KGP, OFFSET_KTP, OFFSET_UEPC

\* regs->uepc += 4.
LEMMA InsnFacts ==
  ASSUME NEW m, DOMAIN m = Words, NEW t, NEW n, m[OFFSET_UEPC] = Pc(t, n, 0), NEW s, s = NextInsn(m)
  PROVE  /\ SameBounds(m, s) /\ SameBase(m, s) /\ \A q \in Regs : s[OFFSET[q]] = m[OFFSET[q]]
         /\ s[OFFSET_UEPC] = Pc(t, n, 4)
<1>1. PICK v : v = Pc(m[544][2], m[544][3], m[544][4] + 4)
  OBVIOUS
<1>2. v = Pc(t, n, 4)
  BY <1>1 DEF Pc, OFFSET_UEPC
<1>3. s = [m EXCEPT ![544] = v]
  BY <1>1 DEF NextInsn, OFFSET_UEPC
<1>4. {0, 8, 16, 544} \subseteq Words /\ Words \subseteq Nat
  BY TrapWords DEF OFFSET_KSP, OFFSET_KGP, OFFSET_KTP, OFFSET_UEPC
<1>5. DOMAIN s = Words /\ s[544] = v /\ \A o \in Words \ {544} : s[o] = m[o]
  BY <1>3, <1>4
<1>6. \A q \in Regs : s[OFFSET[q]] = m[OFFSET[q]]
  BY <1>5, RegWords
<1> QED
  BY <1>2, <1>4, <1>5, <1>6 DEF SameBounds, SameBase, OFFSET_KSP, OFFSET_KGP, OFFSET_KTP, OFFSET_UEPC

\* regs->a0 = v.
Answered(m, s, v) == s = [m EXCEPT ![OFFSET["a0"]] = v]

\* It is one store.
LEMMA ResultFacts ==
  ASSUME NEW m, DOMAIN m = Words, NEW v, NEW s, Answered(m, s, v)
  PROVE  /\ SameBounds(m, s) /\ SameBase(m, s) /\ s[OFFSET_UEPC] = m[OFFSET_UEPC]
         /\ \A q \in Regs : s[OFFSET[q]] = IF q = "a0" THEN v ELSE m[OFFSET[q]]
<1>1. {0, 8, 16, 544} \subseteq Words /\ Words \subseteq Nat
  BY TrapWords DEF OFFSET_KSP, OFFSET_KGP, OFFSET_KTP, OFFSET_UEPC
<1>2. OFFSET["a0"] \in Words /\ 32 <= OFFSET["a0"] /\ OFFSET["a0"] < 288
  BY RegWords, Names
<1>3. DOMAIN s = Words /\ s[OFFSET["a0"]] = v /\ \A o \in Words \ {OFFSET["a0"]} : s[o] = m[o]
  BY <1>2 DEF Answered
<1>4. ASSUME NEW q \in Regs PROVE s[OFFSET[q]] = IF q = "a0" THEN v ELSE m[OFFSET[q]]
  BY <1>3, RegWords, Names
<1> QED
  BY <1>1, <1>2, <1>3, <1>4 DEF SameBounds, SameBase, OFFSET_KSP, OFFSET_KGP, OFFSET_KTP, OFFSET_UEPC

-----------------------------------------------------------------------------
(* The invariant *)

\* The domains of the variables, and the traps counted.
Shape ==
  /\ host \in Hosts /\ setups \in 0 .. Running
  /\ DOMAIN pc = Workers /\ DOMAIN reg = Workers /\ DOMAIN csr = Workers
  /\ DOMAIN tls = Workers /\ DOMAIN cur = Workers
  /\ \A w \in Workers : DOMAIN reg[w] = Regs /\ DOMAIN csr[w] = {"uscratch", "uepc", "dasics"}
  /\ DOMAIN area = Tasks /\ DOMAIN kregs = Tasks /\ DOMAIN state = Tasks
  /\ DOMAIN place = Tasks /\ DOMAIN last = Tasks /\ DOMAIN asked = Tasks
  /\ traps \in [Tasks -> Nat]
  /\ \A t \in Tasks : DOMAIN area[t] = Words

\* The memory bounds in the words m of task t, whose configuration is c, are the
\* ones a asks for, and the jump bounds.
MemAsked(m, c, a, t) ==
  /\ \A i \in 0 .. NMEM - 1 :
       IF i < 8 /\ a[i] # 0
       THEN m[membound(i, 0)] = Low(t, "mem", i) /\ m[membound(i, 1)] = High(t, "mem", i)
       ELSE m[membound(i, 0)] = Zero /\ m[membound(i, 1)] = Zero
  /\ \A i \in 0 .. 7 : c[i] = a[i]
  /\ \A i \in 8 .. 15 : c[i] # 0 => a[7] # 0

JmpAsked(m, c, a, t) ==
  \A i \in 0 .. NJMP - 1 :
    /\ c[i] = a[i]
    /\ m[jmpbound(i, 0)] = IF a[i] # 0 THEN Low(t, "jmp", i) ELSE Zero
    /\ m[jmpbound(i, 1)] = IF a[i] # 0 THEN High(t, "jmp", i) ELSE Zero

Bounded(m, a, t) ==
  /\ m[OFFSET_MEMCFG][1] = "cfg" /\ MemAsked(m, m[OFFSET_MEMCFG][2], a.mem, t)
  /\ m[OFFSET_JMPCFG][1] = "cfg" /\ JmpAsked(m, m[OFFSET_JMPCFG][2], a.jmp, t)

AskShape(a) == DOMAIN a = {"mem", "jmp"} /\ DOMAIN a.mem = 0 .. 7 /\ DOMAIN a.jmp = 0 .. NJMP - 1

\* The words m of a task t that has not run: what its first return needs.
Unused(t, m, n, l) ==
  /\ n = 0 /\ l = "start" /\ m[OFFSET_UEPC] = Pc(t, 0, 0)
  /\ \A q \in Regs : m[OFFSET[q]] = IF q = "sp" THEN User(t, "sp", 0) ELSE Zero

\* The runtime's own registers, as SAVE_ALL will load them on worker w.
Based(t, m, w) == m[OFFSET_KSP] = Kstack(t) /\ m[OFFSET_KGP] = Global /\ m[OFFSET_KTP] = Tls(w)

\* The registers trap n of kind l left, with the sandbox's pc at k.
Saved(t, m, n, l, k) ==
  /\ n # 0 /\ l \in {"irq", "call"} /\ m[OFFSET_UEPC] = Pc(t, n, k)
  /\ \A q \in Regs : m[OFFSET[q]] = User(t, q, n)

\* Where the pc is when the handler comes back to name.
BackAt(name, l, k) ==
  \/ name = "back_irq" /\ l = "irq" /\ k = 0
  \/ name \in {"back_call", "back_block"} /\ l = "call" /\ k = 4

\* Task t is switched out, has words m and saved registers kr, and if it has
\* run it has run on w.
Stopped(t, m, kr, n, l, w) ==
  \/ kr = kregs_init(t) /\ Unused(t, m, n, l)
  \/ /\ Based(t, m, w)
     /\ kr["sp"] = Kstack(t) /\ kr["s0"] = Ctx(t) /\ kr["s1"] = Ctx(t)
     /\ \E name \in {"back_irq", "back_call", "back_block"}, k \in {0, 4} :
          kr["ra"] = Code(name) /\ BackAt(name, l, k) /\ Saved(t, m, n, l, k)

StoppedOn(t, w) == Stopped(t, area[t], kregs[t], traps[t], last[t], w)

\* A loop's registers r, with s1 and ra left aside.
InLoop(w, r) ==
  /\ r["sp"] = Pstack(w) /\ r["tp"] = Tls(w) /\ r["gp"] = Global
  /\ \A q \in KRegs \ {"ra", "sp", "s1"} : r[q] = Loop(w, q)

\* What lps_thread_run of t left in lps_kctx of w.
CallerKept(w, t, k) ==
  /\ k["ra"] = Code("after_run") /\ k["s1"] = Thread(t) /\ k["sp"] = Pstack(w)
  /\ \A q \in KRegs \ {"ra", "sp", "s1"} : k[q] = Loop(w, q)

\* The runtime's registers on the kernel stack of t.
AtHome(w, t, r) == r["sp"] = Kstack(t) /\ r["tp"] = Tls(w) /\ r["gp"] = Global

\* The part of the invariant for the code at p: registers r and c of worker w,
\* words m of task t.
Entered(p, w, t, r, c, m, n, l) ==
  \/ p = "lps_ctx_entry" /\ AtHome(w, t, r) /\ r["a0"] = Ctx(t) /\ Unused(t, m, n, l)
  \/ /\ p = "user" /\ Based(t, m, w)
     /\ \A q \in Regs : r[q] = CASE l = "start" -> IF q = "sp" THEN User(t, "sp", 0) ELSE Zero
                                 [] l = "call" /\ q = "a0" -> Ret(t, n)
                                 [] OTHER -> User(t, q, n)
     /\ c.uepc = Pc(t, n, IF l = "call" THEN 4 ELSE 0) /\ c.uscratch = Ctx(t)
  \/ /\ p = "handler" /\ Based(t, m, w) /\ Saved(t, m, n, l, 0)
     /\ AtHome(w, t, r) /\ r["a0"] = Ctx(t) /\ r["s0"] = Ctx(t) /\ r["s1"] = Ctx(t)
     /\ m[OFFSET_UCAUSE] = <<"IRQ_U_TIME">> <=> l = "irq"
  \/ /\ p \in {"back_irq", "back_call", "back_block"} /\ Based(t, m, w)
     /\ \E k \in {0, 4} : BackAt(p, l, k) /\ Saved(t, m, n, l, k)
     /\ AtHome(w, t, r) /\ r["s0"] = Ctx(t) /\ r["s1"] = Ctx(t)
  \/ p = "aborted"

\* Worker w is in the context of t.
Inside(w, t) ==
  /\ cur[w] = {t} /\ place[t] = <<"out">>
  /\ tls[w].myctx = Ctx(t) /\ CallerKept(w, t, tls[w].kctx)
  /\ csr[w].dasics = lps_load_dasics(area[t])
  /\ Entered(pc[w], w, t, reg[w], csr[w], area[t], traps[t], last[t])

\* It has come back out of it.
Outside(w, t) ==
  /\ pc[w] = "after_run" /\ cur[w] = {t} /\ InLoop(w, reg[w]) /\ reg[w]["s1"] = Thread(t)
  /\ place[t] \in {<<"out">>, <<"wait">>, <<"runq">>}
  /\ (state[t] = "RUNNABLE" /\ host # "security") \/ place[t] # <<"out">> => StoppedOn(t, w)

\* A worker is in its loop, or in a context, or back from one.
WorkerOK(w) ==
  \/ pc[w] \in {"loop", "end"} /\ cur[w] = {} /\ InLoop(w, reg[w])
  \/ \E t \in Tasks : Inside(w, t) \/ Outside(w, t)

\* No two are in the same context.  The single-core loops run on one worker,
\* and nothing runs while the host sets up.
WorkerInv ==
  /\ \A w \in Workers : WorkerOK(w)
  /\ \A v, w \in Workers : v # w => cur[v] \cap cur[w] = {}
  /\ host # "mc" => \A w \in Workers \ {RRWorker} : pc[w] = "loop"
  /\ setups # Running => \A w \in Workers : pc[w] = "loop"

\* A task in a queue has stopped; one that has run is in the queue of the
\* worker that ran it, unless there is only one worker.
Queued(t, v) ==
  /\ StoppedOn(t, v)
  /\ host # "mc" => v = RRWorker
  /\ place[t][1] # "local" \/ traps[t] = 0 \/ place[t] = <<"local", v>>

TaskOK(t) ==
  /\ Bounded(area[t], asked[t], t) /\ AskShape(asked[t])
  /\ place[t] = <<"grunq">> => traps[t] = 0
  /\ place[t] # <<"out">> => \E v \in Workers : Queued(t, v)

TaskInv == \A t \in Tasks : TaskOK(t)

CtxInv == Shape /\ WorkerInv /\ TaskInv

-----------------------------------------------------------------------------
(* Bounds *)

\* The words lps_load_dasics loads the registers from.
LEMMA Sources ==
  /\ CSR_DLCFG \in DasicsCSRs /\ DasicsSource[CSR_DLCFG] = OFFSET_MEMCFG
  /\ CSR_DJCFG \in DasicsCSRs /\ DasicsSource[CSR_DJCFG] = OFFSET_JMPCFG
  /\ \A i \in 0 .. NMEM - 1, k \in 0 .. 1 :
       CSR_DLBOUND(i, k) \in DasicsCSRs /\ DasicsSource[CSR_DLBOUND(i, k)] = membound(i, k)
  /\ \A i \in 0 .. NJMP - 1, k \in 0 .. 1 :
       CSR_DJBOUND(i, k) \in DasicsCSRs /\ DasicsSource[CSR_DJBOUND(i, k)] = jmpbound(i, k)
<1> DEFINE M(n) == (n - 2192) \div 2
           J(n) == (n - 2240) \div 2
<1>1. /\ CSR_DLCFG = 2176 /\ CSR_DJCFG = 2248
      /\ \A i \in Int, k \in Int : CSR_DLBOUND(i, k) = 2192 + 2 * i + k /\ CSR_DJBOUND(i, k) = 2240 + 2 * i + k
  BY DEF CSR_DLCFG, CSR_DJCFG, CSR_DLBOUND, CSR_DJBOUND
<1>2. /\ CSR_DLCFG \in DasicsCSRs /\ CSR_DJCFG \in DasicsCSRs
      /\ \A i \in 0 .. NMEM - 1, k \in 0 .. 1 : CSR_DLBOUND(i, k) \in DasicsCSRs
      /\ \A i \in 0 .. NJMP - 1, k \in 0 .. 1 : CSR_DJBOUND(i, k) \in DasicsCSRs
  BY DEF DasicsCSRs
<1>3. \A n \in DasicsCSRs : DasicsSource[n] =
        CASE n = 2176 -> OFFSET_MEMCFG
          [] n = 2248 -> OFFSET_JMPCFG
          [] M(n) \in 0 .. NMEM - 1 -> IF n % 2 = 0 THEN OFFSET_MEMBOUNDLO(M(n)) ELSE OFFSET_MEMBOUNDHI(M(n))
          [] OTHER -> IF n % 2 = 0 THEN OFFSET_JMPBOUNDLO(J(n)) ELSE OFFSET_JMPBOUNDHI(J(n))
  <2>1. CSR_DLBOUND(0, 0) = 2192 /\ CSR_DJBOUND(0, 0) = 2240
    BY <1>1
  <2> QED
    BY <1>1, <2>1 DEF DasicsSource
<1>4. DasicsSource[CSR_DLCFG] = OFFSET_MEMCFG
  <2>1. M(2176) = -8
    OBVIOUS
  <2> HIDE DEF M, J
  <2> QED
    BY <1>1, <1>2, <1>3, <2>1 DEF NMEM
<1>5. DasicsSource[CSR_DJCFG] = OFFSET_JMPCFG
  <2>1. M(2248) = 28
    OBVIOUS
  <2> HIDE DEF M, J
  <2> QED
    BY <1>1, <1>2, <1>3, <2>1 DEF NMEM
<1>6. ASSUME NEW i \in 0 .. NMEM - 1, NEW k \in 0 .. 1
      PROVE  DasicsSource[CSR_DLBOUND(i, k)] = membound(i, k)
  <2>1. PICK n : n = 2192 + 2 * i + k
    OBVIOUS
  <2>2. n = CSR_DLBOUND(i, k) /\ n # 2176 /\ n # 2248 /\ (k = 0 \/ k = 1)
    <3>1. i \in Int /\ k \in Int /\ 0 <= i /\ i <= NMEM - 1 /\ (k = 0 \/ k = 1)
      BY DEF NMEM
    <3>2. n = CSR_DLBOUND(i, k)
      BY <1>1, <2>1, <3>1
    <3>3. n # 2176 /\ n # 2248
      BY <2>1, <3>1 DEF NMEM
    <3> QED
      BY <3>1, <3>2, <3>3
  <2>3. M(n) = i /\ n % 2 = k
    BY <2>1, <2>2 DEF NMEM
  <2> HIDE DEF M, J
  <2> QED
    BY <1>2, <1>3, <2>2, <2>3, BoundWords
<1>7. ASSUME NEW i \in 0 .. NJMP - 1, NEW k \in 0 .. 1
      PROVE  DasicsSource[CSR_DJBOUND(i, k)] = jmpbound(i, k)
  <2>1. PICK n : n = 2240 + 2 * i + k
    OBVIOUS
  <2>2. n = CSR_DJBOUND(i, k) /\ n # 2176 /\ n # 2248 /\ (k = 0 \/ k = 1)
    <3>1. i \in Int /\ k \in Int /\ 0 <= i /\ i <= NJMP - 1 /\ (k = 0 \/ k = 1)
      BY DEF NJMP
    <3>2. n = CSR_DJBOUND(i, k)
      BY <1>1, <2>1, <3>1
    <3>3. n # 2176 /\ n # 2248
      BY <2>1, <3>1 DEF NJMP
    <3> QED
      BY <3>1, <3>2, <3>3
  <2>3. J(n) = i /\ n % 2 = k /\ M(n) = 24 + i
    BY <2>1, <2>2 DEF NJMP
  <2>4. M(n) \notin 0 .. NMEM - 1
    <3> HIDE DEF M
    <3> QED
      BY <2>3 DEF NMEM, NJMP
  <2> HIDE DEF M, J
  <2> QED
    BY <1>2, <1>3, <2>2, <2>3, <2>4, BoundWords
<1> QED
  BY <1>2, <1>4, <1>5, <1>6, <1>7

\* A change below the bounds changes neither the bounds nor what is loaded.
LEMMA BoundsKept ==
  ASSUME NEW m, NEW s, SameBounds(m, s)
  PROVE  /\ lps_load_dasics(s) = lps_load_dasics(m)
         /\ \A a, t : Bounded(m, a, t) => Bounded(s, a, t)
<1>1. /\ s[OFFSET_MEMCFG] = m[OFFSET_MEMCFG] /\ s[OFFSET_JMPCFG] = m[OFFSET_JMPCFG]
      /\ \A i \in 0 .. NMEM - 1, k \in 0 .. 1 : s[membound(i, k)] = m[membound(i, k)]
      /\ \A i \in 0 .. NJMP - 1, k \in 0 .. 1 : s[jmpbound(i, k)] = m[jmpbound(i, k)]
  <2>1. s[OFFSET_MEMCFG] = m[OFFSET_MEMCFG] /\ s[OFFSET_JMPCFG] = m[OFFSET_JMPCFG]
    BY TrapWords, BoundWords DEF SameBounds
  <2>2. ASSUME NEW i \in 0 .. NMEM - 1, NEW k \in 0 .. 1 PROVE s[membound(i, k)] = m[membound(i, k)]
    <3>1. membound(i, k) >= 576
      <4>1. k = 0 \/ k = 1
        OBVIOUS
      <4> QED
        BY <4>1, BoundWords DEF NMEM
    <3> QED
      BY <3>1, TrapWords DEF SameBounds
  <2>3. ASSUME NEW i \in 0 .. NJMP - 1, NEW k \in 0 .. 1 PROVE s[jmpbound(i, k)] = m[jmpbound(i, k)]
    <3>1. jmpbound(i, k) >= 576
      <4>1. k = 0 \/ k = 1
        OBVIOUS
      <4> QED
        BY <4>1, BoundWords DEF NJMP
    <3> QED
      BY <3>1, TrapWords DEF SameBounds
  <2> QED
    BY <2>1, <2>2, <2>3
<1>2. ASSUME NEW n \in DasicsCSRs PROVE s[DasicsSource[n]] = m[DasicsSource[n]]
  <2>1. \/ n = CSR_DLCFG \/ n = CSR_DJCFG
        \/ \E i \in 0 .. NMEM - 1, k \in 0 .. 1 : n = CSR_DLBOUND(i, k)
        \/ \E i \in 0 .. NJMP - 1, k \in 0 .. 1 : n = CSR_DJBOUND(i, k)
    BY DEF DasicsCSRs
  <2> QED
    BY <1>1, <2>1, Sources
<1>3. lps_load_dasics(s) = lps_load_dasics(m)
  BY <1>2 DEF lps_load_dasics
<1>4. ASSUME NEW a, NEW t, Bounded(m, a, t) PROVE Bounded(s, a, t)
  <2>1. 0 \in 0 .. 1 /\ 1 \in 0 .. 1
    OBVIOUS
  <2> QED
    BY <1>1, <1>4, <2>1 DEF Bounded, MemAsked, JmpAsked
<1> QED
  BY <1>3, <1>4

\* The nibbles of a configuration after one is masked out, and after one is set:
\* bound 7 reaches into the upper half, no other does.
NibblesAre(c, v, idx) ==
  /\ \A i \in 0 .. 7 : MaskOut(c, idx)[i] = IF i = idx THEN 0 ELSE c[i]
  /\ \A i \in 8 .. 15 : MaskOut(c, idx)[i] = IF idx = 7 THEN 0 ELSE c[i]
  /\ \A i \in 0 .. 7 : SetCfg(c, v, idx)[i] = IF i = idx THEN v ELSE c[i]
  /\ \A i \in 8 .. 15 : SetCfg(c, v, idx)[i] = IF idx = 7 THEN IF v >= 8 THEN 15 ELSE 0 ELSE c[i]

\* They are what the masks of bound.c compute.
LEMMA Nibbles ==
  ASSUME NEW c, NEW idx \in 0 .. 7, NEW v \in 1 .. 15
  PROVE  NibblesAre(c, v, idx)
<1> DEFINE x == NotInt(ShiftInt(15, idx))
           y == ShiftInt(v, idx)
           M == MaskOut(c, idx)
<1>1. \A i \in 0 .. 7 : x[i] = IF i = idx THEN 0 ELSE 15
  BY DEF NotInt, ShiftInt
<1>2. \A i \in 0 .. 7 : y[i] = IF i = idx THEN v ELSE 0
  BY DEF ShiftInt
<1> HIDE DEF x, y
<1>3. /\ \A i \in 0 .. 7 : Widen(x)[i] = x[i] /\ Widen(y)[i] = y[i]
      /\ \A i \in 8 .. 15 : /\ Widen(x)[i] = IF idx = 7 THEN 0 ELSE 15
                            /\ Widen(y)[i] = IF idx = 7 /\ v >= 8 THEN 15 ELSE 0
  <2>1. \A i \in 0 .. 15 : /\ Widen(x)[i] = IF i < 8 THEN x[i] ELSE IF x[7] >= 8 THEN 15 ELSE 0
                           /\ Widen(y)[i] = IF i < 8 THEN y[i] ELSE IF y[7] >= 8 THEN 15 ELSE 0
    BY DEF Widen
  <2>2. (x[7] >= 8 <=> idx # 7) /\ (y[7] >= 8 <=> idx = 7 /\ v >= 8)
    BY <1>1, <1>2
  <2> QED
    BY <2>1, <2>2
<1>4. \A i \in 0 .. 15 : M[i] = IF Widen(x)[i] = 15 THEN c[i] ELSE 0
  BY DEF MaskOut, x
<1>5. /\ \A i \in 0 .. 7 : M[i] = IF i = idx THEN 0 ELSE c[i]
      /\ \A i \in 8 .. 15 : M[i] = IF idx = 7 THEN 0 ELSE c[i]
  <2> HIDE DEF M
  <2>1. \A i \in 0 .. 7 : i \in 0 .. 15
    OBVIOUS
  <2>2. \A i \in 8 .. 15 : i \in 0 .. 15
    OBVIOUS
  <2> QED
    BY <1>1, <1>3, <1>4, <2>1, <2>2
<1>6. \A i \in 0 .. 15 : SetCfg(c, v, idx)[i] =
        IF M[i] = 0 THEN Widen(y)[i] ELSE IF Widen(y)[i] = 0 THEN M[i] ELSE 15
  BY DEF SetCfg, OrIn, y
<1> HIDE DEF M
<1>7. ASSUME NEW i \in 0 .. 7 PROVE SetCfg(c, v, idx)[i] = IF i = idx THEN v ELSE c[i]
  <2>1. i \in 0 .. 15
    OBVIOUS
  <2> QED
    BY <1>2, <1>3, <1>5, <1>6, <2>1
<1>8. ASSUME NEW i \in 8 .. 15
      PROVE  SetCfg(c, v, idx)[i] = IF idx = 7 THEN IF v >= 8 THEN 15 ELSE 0 ELSE c[i]
  <2>1. i \in 0 .. 15
    OBVIOUS
  <2> QED
    BY <1>3, <1>5, <1>6, <2>1
<1> QED
  BY <1>5, <1>7, <1>8 DEF M, NibblesAre

\* The words s are the words m but for the bounds.
SameBelow(m, s) == DOMAIN s = Words /\ \A o \in Words : o < 576 => s[o] = m[o]

SameJmp(m, s) ==
  /\ s[OFFSET_JMPCFG] = m[OFFSET_JMPCFG]
  /\ \A i \in 0 .. NJMP - 1, k \in 0 .. 1 : s[jmpbound(i, k)] = m[jmpbound(i, k)]

SameMem(m, s) ==
  /\ s[OFFSET_MEMCFG] = m[OFFSET_MEMCFG]
  /\ \A i \in 0 .. NMEM - 1, k \in 0 .. 1 : s[membound(i, k)] = m[membound(i, k)]

\* The three stores of a call of bound.c.
MemStored(m, s, idx, lo, hi, v) ==
  s = [m EXCEPT ![membound(idx, 0)] = lo, ![membound(idx, 1)] = hi, ![offsetof["memcfg"]] = v]

JmpStored(m, s, idx, lo, hi, v) ==
  s = [m EXCEPT ![jmpbound(idx, 0)] = lo, ![jmpbound(idx, 1)] = hi, ![offsetof["jmpcfg"]] = v]

\* The stores of lps_membound_set and lps_membound_clear.
LEMMA MemStores ==
  ASSUME NEW m, DOMAIN m = Words, NEW idx \in 0 .. 7, NEW lo, NEW hi, NEW v, NEW s,
         MemStored(m, s, idx, lo, hi, v)
  PROVE  /\ SameBelow(m, s) /\ SameJmp(m, s) /\ s[OFFSET_MEMCFG] = v
         /\ \A i \in 0 .. NMEM - 1 :
              /\ s[membound(i, 0)] = IF i = idx THEN lo ELSE m[membound(i, 0)]
              /\ s[membound(i, 1)] = IF i = idx THEN hi ELSE m[membound(i, 1)]
<1> DEFINE a == 584 + 16 * idx
           b == 592 + 16 * idx
<1>1. idx \in 0 .. NMEM - 1 /\ idx \in Int /\ 0 <= idx
  BY DEF NMEM
<1>2. /\ membound(idx, 0) = a /\ membound(idx, 1) = b /\ offsetof["memcfg"] = 576 /\ OFFSET_MEMCFG = 576
      /\ a \in Int /\ b \in Int /\ a > 576 /\ b > 576 /\ a # b /\ a < 840 /\ b < 840
  BY <1>1, BoundWords
<1>3. 0 \in 0 .. 1 /\ 1 \in 0 .. 1
  OBVIOUS
<1>4. a \in Words /\ b \in Words /\ 576 \in Words
  BY <1>1, <1>2, <1>3, TrapWords
<1> HIDE DEF a, b
<1>5. s = [m EXCEPT ![a] = lo, ![b] = hi, ![576] = v]
  BY <1>2, ZenonT(40) DEF MemStored
<1>6. /\ DOMAIN s = Words /\ s[a] = lo /\ s[b] = hi /\ s[576] = v
      /\ \A o \in Words \ {a, b, 576} : s[o] = m[o]
  BY <1>2, <1>4, <1>5
<1>7. SameBelow(m, s)
  BY <1>2, <1>6, TrapWords DEF SameBelow
<1>8. SameJmp(m, s)
  <2>1. s[OFFSET_JMPCFG] = m[OFFSET_JMPCFG]
    BY <1>2, <1>6, TrapWords, BoundWords
  <2>2. ASSUME NEW i \in 0 .. NJMP - 1, NEW k \in 0 .. 1 PROVE s[jmpbound(i, k)] = m[jmpbound(i, k)]
    <3>1. jmpbound(i, k) > 840
      <4>1. k = 0 \/ k = 1
        OBVIOUS
      <4> QED
        BY <4>1, BoundWords DEF NJMP
    <3>2. jmpbound(i, k) \in Words /\ Words \subseteq Nat
      BY TrapWords
    <3>3. jmpbound(i, k) \in Words \ {a, b, 576}
      BY <1>2, <3>1, <3>2
    <3> QED
      BY <1>6, <3>3
  <2> QED
    BY <2>1, <2>2 DEF SameJmp
<1>9. ASSUME NEW i \in 0 .. NMEM - 1
      PROVE  /\ s[membound(i, 0)] = IF i = idx THEN lo ELSE m[membound(i, 0)]
             /\ s[membound(i, 1)] = IF i = idx THEN hi ELSE m[membound(i, 1)]
  <2>1. CASE i = idx
    BY <1>2, <1>6, <2>1
  <2>2. CASE i # idx
    <3>1. /\ membound(i, 0) \in Words \ {a, b, 576} /\ membound(i, 1) \in Words \ {a, b, 576}
      <4>1. membound(i, 0) \in Words /\ membound(i, 1) \in Words
        BY <1>3, TrapWords
      <4>2. membound(i, 0) = 584 + 16 * i /\ membound(i, 1) = 592 + 16 * i
        BY BoundWords
      <4>3. i \in Int /\ 0 <= i
        BY DEF NMEM
      <4> QED
        BY <1>1, <2>2, <4>1, <4>2, <4>3 DEF a, b
    <3> QED
      BY <1>6, <2>2, <3>1
  <2> QED
    BY <2>1, <2>2
<1> QED
  BY <1>2, <1>6, <1>7, <1>8, <1>9

\* And those of lps_jmpbound_set and lps_jmpbound_clear.
LEMMA JmpStores ==
  ASSUME NEW m, DOMAIN m = Words, NEW idx \in 0 .. NJMP - 1, NEW lo, NEW hi, NEW v, NEW s,
         JmpStored(m, s, idx, lo, hi, v)
  PROVE  /\ SameBelow(m, s) /\ SameMem(m, s) /\ s[OFFSET_JMPCFG] = v
         /\ \A i \in 0 .. NJMP - 1 :
              /\ s[jmpbound(i, 0)] = IF i = idx THEN lo ELSE m[jmpbound(i, 0)]
              /\ s[jmpbound(i, 1)] = IF i = idx THEN hi ELSE m[jmpbound(i, 1)]
<1> DEFINE a == 848 + 16 * idx
           b == 856 + 16 * idx
<1>1. idx \in Int /\ 0 <= idx
  BY DEF NJMP
<1>2. /\ jmpbound(idx, 0) = a /\ jmpbound(idx, 1) = b /\ offsetof["jmpcfg"] = 840 /\ OFFSET_JMPCFG = 840
      /\ a \in Int /\ b \in Int /\ a > 840 /\ b > 840 /\ a # b
  BY <1>1, BoundWords
<1>3. 0 \in 0 .. 1 /\ 1 \in 0 .. 1
  OBVIOUS
<1>4. a \in Words /\ b \in Words /\ 840 \in Words
  BY <1>1, <1>2, <1>3, TrapWords
<1> HIDE DEF a, b
<1>5. s = [m EXCEPT ![a] = lo, ![b] = hi, ![840] = v]
  BY <1>2, ZenonT(40) DEF JmpStored
<1>6. /\ DOMAIN s = Words /\ s[a] = lo /\ s[b] = hi /\ s[840] = v
      /\ \A o \in Words \ {a, b, 840} : s[o] = m[o]
  BY <1>2, <1>4, <1>5
<1>7. SameBelow(m, s)
  BY <1>2, <1>6, TrapWords DEF SameBelow
<1>8. SameMem(m, s)
  <2>1. s[OFFSET_MEMCFG] = m[OFFSET_MEMCFG]
    BY <1>2, <1>6, TrapWords, BoundWords
  <2>2. ASSUME NEW i \in 0 .. NMEM - 1, NEW k \in 0 .. 1 PROVE s[membound(i, k)] = m[membound(i, k)]
    <3>1. membound(i, k) < 840
      <4>1. k = 0 \/ k = 1
        OBVIOUS
      <4> QED
        BY <4>1, BoundWords DEF NMEM
    <3>2. membound(i, k) \in Words /\ Words \subseteq Nat
      BY TrapWords
    <3>3. membound(i, k) \in Words \ {a, b, 840}
      BY <1>2, <3>1, <3>2
    <3> QED
      BY <1>6, <3>3
  <2> QED
    BY <2>1, <2>2 DEF SameMem
<1>9. ASSUME NEW i \in 0 .. NJMP - 1
      PROVE  /\ s[jmpbound(i, 0)] = IF i = idx THEN lo ELSE m[jmpbound(i, 0)]
             /\ s[jmpbound(i, 1)] = IF i = idx THEN hi ELSE m[jmpbound(i, 1)]
  <2>1. CASE i = idx
    BY <1>2, <1>6, <2>1
  <2>2. CASE i # idx
    <3>1. /\ jmpbound(i, 0) \in Words \ {a, b, 840} /\ jmpbound(i, 1) \in Words \ {a, b, 840}
      <4>1. jmpbound(i, 0) \in Words /\ jmpbound(i, 1) \in Words
        BY <1>3, TrapWords
      <4>2. jmpbound(i, 0) = 848 + 16 * i /\ jmpbound(i, 1) = 856 + 16 * i
        BY BoundWords
      <4>3. i \in Int /\ 0 <= i
        BY DEF NJMP
      <4> QED
        BY <1>1, <2>2, <4>1, <4>2, <4>3 DEF a, b
    <3> QED
      BY <1>6, <2>2, <3>1
  <2> QED
    BY <2>1, <2>2
<1>10. s[OFFSET_JMPCFG] = v
  BY <1>2, <1>6
<1> QED
  BY <1>7, <1>8, <1>9, <1>10

\* What one kind of bound does not share with the other.
LEMMA Apart ==
  ASSUME NEW m, NEW s
  PROVE  /\ SameJmp(m, s) => \A c, a, t : JmpAsked(m, c, a, t) => JmpAsked(s, c, a, t)
         /\ SameMem(m, s) => \A c, a, t : MemAsked(m, c, a, t) => MemAsked(s, c, a, t)
<1>1. 0 \in 0 .. 1 /\ 1 \in 0 .. 1
  OBVIOUS
<1> QED
  BY <1>1 DEF SameJmp, SameMem, JmpAsked, MemAsked

\* A configuration read back.
LEMMA CfgBack ==
  ASSUME NEW c
  PROVE  Cfg(c)[1] = "cfg" /\ Cfg(c)[2] = c
BY DEF Cfg

\* lps_membound_set or lps_membound_clear on the words m, where a was asked for
\* before and b is asked for after.
MemCall(m, s, idx, prot, t, a, b) ==
  \/ /\ s = lps_membound_set(m, idx, prot, Low(t, "mem", idx), High(t, "mem", idx))
     /\ b = [a EXCEPT ![idx] = LIBCFG_V + prot]
  \/ s = lps_membound_clear(m, idx) /\ b = [a EXCEPT ![idx] = 0]

JmpCall(m, s, idx, t, a, b) ==
  \/ /\ s = lps_jmpbound_set(m, idx, Low(t, "jmp", idx), High(t, "jmp", idx))
     /\ b = [a EXCEPT ![idx] = JMPCFG_V]
  \/ s = lps_jmpbound_clear(m, idx) /\ b = [a EXCEPT ![idx] = 0]

\* The memory bound asked for is the one that is set, or cleared.
LEMMA MemBoundFacts ==
  ASSUME NEW m, DOMAIN m = Words, NEW idx \in 0 .. 7, NEW prot \in {LIBCFG_R, LIBCFG_R + LIBCFG_W}, NEW t,
         NEW a, DOMAIN a = 0 .. 7, MemAsked(m, CfgOf(m[OFFSET_MEMCFG]), a, t), NEW s, NEW b,
         MemCall(m, s, idx, prot, t, a, b)
  PROVE  /\ SameBelow(m, s) /\ SameJmp(m, s) /\ DOMAIN b = 0 .. 7
         /\ s[OFFSET_MEMCFG][1] = "cfg" /\ MemAsked(s, s[OFFSET_MEMCFG][2], b, t)
<1>1. PICK c : c = CfgOf(m[OFFSET_MEMCFG])
  OBVIOUS
<1>2. offsetof["memcfg"] = OFFSET_MEMCFG
  BY BoundWords
<1>3. PICK u : u = LIBCFG_V + prot
  OBVIOUS
<1>4. u \in 1 .. 15 /\ u >= 8 /\ u = prot + LIBCFG_V /\ u # 0
  BY <1>3 DEF LIBCFG_V, LIBCFG_R, LIBCFG_W
<1>4a. u \in 1 .. 15
  BY <1>4
<1>5. PICK d, lo, hi, v :
        /\ MemStored(m, s, idx, lo, hi, Cfg(d))
        /\ b = [a EXCEPT ![idx] = v]
        /\ \/ v = u /\ lo = Low(t, "mem", idx) /\ hi = High(t, "mem", idx) /\ d = SetCfg(c, u, idx)
           \/ v = 0 /\ lo = Zero /\ hi = Zero /\ d = MaskOut(c, idx)
  <2>1. CASE /\ s = lps_membound_set(m, idx, prot, Low(t, "mem", idx), High(t, "mem", idx))
             /\ b = [a EXCEPT ![idx] = LIBCFG_V + prot]
    <3>1. s = [m EXCEPT ![membound(idx, 0)] = Low(t, "mem", idx), ![membound(idx, 1)] = High(t, "mem", idx),
                        ![offsetof["memcfg"]] = Cfg(SetCfg(CfgOf(@), prot + LIBCFG_V, idx))]
      BY <2>1 DEF lps_membound_set
    <3>2. offsetof["memcfg"] # membound(idx, 0) /\ offsetof["memcfg"] # membound(idx, 1)
      BY BoundWords DEF NMEM
    <3>3. s = [m EXCEPT ![membound(idx, 0)] = Low(t, "mem", idx), ![membound(idx, 1)] = High(t, "mem", idx),
                        ![offsetof["memcfg"]] = Cfg(SetCfg(CfgOf(m[offsetof["memcfg"]]), prot + LIBCFG_V, idx))]
      BY <3>1, <3>2
    <3> QED
      BY <1>1, <1>2, <1>3, <1>4, <2>1, <3>3 DEF MemStored
  <2>2. CASE s = lps_membound_clear(m, idx) /\ b = [a EXCEPT ![idx] = 0]
    <3>1. s = [m EXCEPT ![membound(idx, 0)] = Zero, ![membound(idx, 1)] = Zero,
                        ![offsetof["memcfg"]] = Cfg(MaskOut(CfgOf(@), idx))]
      BY <2>2 DEF lps_membound_clear
    <3>2. offsetof["memcfg"] # membound(idx, 0) /\ offsetof["memcfg"] # membound(idx, 1)
      BY BoundWords DEF NMEM
    <3>3. s = [m EXCEPT ![membound(idx, 0)] = Zero, ![membound(idx, 1)] = Zero,
                        ![offsetof["memcfg"]] = Cfg(MaskOut(CfgOf(m[offsetof["memcfg"]]), idx))]
      BY <3>1, <3>2
    <3> QED
      BY <1>1, <1>2, <2>2, <3>3 DEF MemStored
  <2> QED
    BY <2>1, <2>2 DEF MemCall
<1>6. /\ SameBelow(m, s) /\ SameJmp(m, s) /\ s[OFFSET_MEMCFG] = Cfg(d)
      /\ \A i \in 0 .. NMEM - 1 :
           /\ s[membound(i, 0)] = IF i = idx THEN lo ELSE m[membound(i, 0)]
           /\ s[membound(i, 1)] = IF i = idx THEN hi ELSE m[membound(i, 1)]
  BY <1>5, MemStores
<1>7. DOMAIN b = 0 .. 7 /\ b[idx] = v /\ \A i \in 0 .. 7 : i # idx => b[i] = a[i]
  BY <1>5
<1>8. /\ \A i \in 0 .. 7 : d[i] = IF i = idx THEN v ELSE c[i]
      /\ \A i \in 8 .. 15 : idx # 7 => d[i] = c[i]
      /\ idx = 7 /\ v = 0 => \A i \in 8 .. 15 : d[i] = 0
  <2>0. NibblesAre(c, u, idx)
    BY <1>4a, Nibbles
  <2>1. /\ \A i \in 0 .. 7 : MaskOut(c, idx)[i] = IF i = idx THEN 0 ELSE c[i]
        /\ \A i \in 8 .. 15 : MaskOut(c, idx)[i] = IF idx = 7 THEN 0 ELSE c[i]
        /\ \A i \in 0 .. 7 : SetCfg(c, u, idx)[i] = IF i = idx THEN u ELSE c[i]
        /\ \A i \in 8 .. 15 : SetCfg(c, u, idx)[i] = IF idx = 7 THEN IF u >= 8 THEN 15 ELSE 0 ELSE c[i]
    BY <2>0 DEF NibblesAre
  <2>2. CASE v = u /\ d = SetCfg(c, u, idx)
    BY <1>4, <2>1, <2>2
  <2>3. CASE v = 0 /\ d = MaskOut(c, idx)
    BY <2>1, <2>3
  <2> QED
    BY <1>5, <2>2, <2>3
<1>9. /\ \A i \in 0 .. NMEM - 1 :
           IF i < 8 /\ a[i] # 0
           THEN m[membound(i, 0)] = Low(t, "mem", i) /\ m[membound(i, 1)] = High(t, "mem", i)
           ELSE m[membound(i, 0)] = Zero /\ m[membound(i, 1)] = Zero
      /\ \A i \in 0 .. 7 : c[i] = a[i]
      /\ \A i \in 8 .. 15 : c[i] # 0 => a[7] # 0
  BY <1>1 DEF MemAsked
<1>10. MemAsked(s, d, b, t)
  <2>1. ASSUME NEW i \in 0 .. NMEM - 1
        PROVE  IF i < 8 /\ b[i] # 0
               THEN s[membound(i, 0)] = Low(t, "mem", i) /\ s[membound(i, 1)] = High(t, "mem", i)
               ELSE s[membound(i, 0)] = Zero /\ s[membound(i, 1)] = Zero
    <3>1. CASE i = idx
      BY <1>4, <1>5, <1>6, <1>7, <3>1
    <3>2. CASE i # idx
      <4>1. i < 8 => i \in 0 .. 7
        BY DEF NMEM
      <4>2. s[membound(i, 0)] = m[membound(i, 0)] /\ s[membound(i, 1)] = m[membound(i, 1)]
        BY <1>6, <3>2
      <4>3. i < 8 => b[i] = a[i]
        BY <1>7, <3>2, <4>1
      <4>4. IF i < 8 /\ a[i] # 0
            THEN m[membound(i, 0)] = Low(t, "mem", i) /\ m[membound(i, 1)] = High(t, "mem", i)
            ELSE m[membound(i, 0)] = Zero /\ m[membound(i, 1)] = Zero
        BY <1>9
      <4> QED
        BY <4>2, <4>3, <4>4
    <3> QED
      BY <3>1, <3>2
  <2>2. \A i \in 0 .. 7 : d[i] = b[i]
    BY <1>7, <1>8, <1>9
  <2>3. ASSUME NEW i \in 8 .. 15, d[i] # 0 PROVE b[7] # 0
    <3>1. CASE idx = 7
      BY <1>4, <1>5, <1>7, <1>8, <2>3, <3>1
    <3>2. CASE idx # 7
      <4>1. 7 \in 0 .. 7
        OBVIOUS
      <4> QED
        BY <1>7, <1>8, <1>9, <2>3, <3>2, <4>1
    <3> QED
      BY <3>1, <3>2
  <2> QED
    BY <2>1, <2>2, <2>3 DEF MemAsked
<1> QED
  BY <1>6, <1>7, <1>10, CfgBack

\* The same for a jump bound.
LEMMA JmpBoundFacts ==
  ASSUME NEW m, DOMAIN m = Words, NEW idx \in 0 .. NJMP - 1, NEW t,
         NEW a, DOMAIN a = 0 .. NJMP - 1, JmpAsked(m, CfgOf(m[OFFSET_JMPCFG]), a, t), NEW s, NEW b,
         JmpCall(m, s, idx, t, a, b)
  PROVE  /\ SameBelow(m, s) /\ SameMem(m, s) /\ DOMAIN b = 0 .. NJMP - 1
         /\ s[OFFSET_JMPCFG][1] = "cfg" /\ JmpAsked(s, s[OFFSET_JMPCFG][2], b, t)
<1>1. PICK c : c = CfgOf(m[OFFSET_JMPCFG])
  OBVIOUS
<1>2. offsetof["jmpcfg"] = OFFSET_JMPCFG
  BY BoundWords
<1>3. JMPCFG_V = 1 /\ 1 \in 1 .. 15
  BY DEF JMPCFG_V
<1>4. idx \in 0 .. 7
  BY DEF NJMP
<1>5. PICK d, lo, hi, v :
        /\ JmpStored(m, s, idx, lo, hi, Cfg(d))
        /\ b = [a EXCEPT ![idx] = v]
        /\ \/ v = 1 /\ lo = Low(t, "jmp", idx) /\ hi = High(t, "jmp", idx) /\ d = SetCfg(c, 1, idx)
           \/ v = 0 /\ lo = Zero /\ hi = Zero /\ d = MaskOut(c, idx)
  <2>0. offsetof["jmpcfg"] # jmpbound(idx, 0) /\ offsetof["jmpcfg"] # jmpbound(idx, 1)
    BY BoundWords DEF NJMP
  <2>1. CASE /\ s = lps_jmpbound_set(m, idx, Low(t, "jmp", idx), High(t, "jmp", idx))
             /\ b = [a EXCEPT ![idx] = JMPCFG_V]
    <3>1. s = [m EXCEPT ![jmpbound(idx, 0)] = Low(t, "jmp", idx), ![jmpbound(idx, 1)] = High(t, "jmp", idx),
                        ![offsetof["jmpcfg"]] = Cfg(SetCfg(CfgOf(@), JMPCFG_V, idx))]
      BY <2>1 DEF lps_jmpbound_set
    <3>2. s = [m EXCEPT ![jmpbound(idx, 0)] = Low(t, "jmp", idx), ![jmpbound(idx, 1)] = High(t, "jmp", idx),
                        ![offsetof["jmpcfg"]] = Cfg(SetCfg(CfgOf(m[offsetof["jmpcfg"]]), JMPCFG_V, idx))]
      BY <2>0, <3>1
    <3> QED
      BY <1>1, <1>2, <1>3, <2>1, <3>2 DEF JmpStored
  <2>2. CASE s = lps_jmpbound_clear(m, idx) /\ b = [a EXCEPT ![idx] = 0]
    <3>1. s = [m EXCEPT ![jmpbound(idx, 0)] = Zero, ![jmpbound(idx, 1)] = Zero,
                        ![offsetof["jmpcfg"]] = Cfg(MaskOut(CfgOf(@), idx))]
      BY <2>2 DEF lps_jmpbound_clear
    <3>2. s = [m EXCEPT ![jmpbound(idx, 0)] = Zero, ![jmpbound(idx, 1)] = Zero,
                        ![offsetof["jmpcfg"]] = Cfg(MaskOut(CfgOf(m[offsetof["jmpcfg"]]), idx))]
      BY <2>0, <3>1
    <3> QED
      BY <1>1, <1>2, <2>2, <3>2 DEF JmpStored
  <2> QED
    BY <2>1, <2>2 DEF JmpCall
<1>6. /\ SameBelow(m, s) /\ SameMem(m, s) /\ s[OFFSET_JMPCFG] = Cfg(d)
      /\ \A i \in 0 .. NJMP - 1 :
           /\ s[jmpbound(i, 0)] = IF i = idx THEN lo ELSE m[jmpbound(i, 0)]
           /\ s[jmpbound(i, 1)] = IF i = idx THEN hi ELSE m[jmpbound(i, 1)]
  BY <1>5, JmpStores
<1>7. DOMAIN b = 0 .. NJMP - 1 /\ b[idx] = v /\ \A i \in 0 .. NJMP - 1 : i # idx => b[i] = a[i]
  BY <1>5
<1>8. \A i \in 0 .. 7 : d[i] = IF i = idx THEN v ELSE c[i]
  <2>1. NibblesAre(c, 1, idx)
    BY <1>3, <1>4, Nibbles
  <2>2. /\ \A i \in 0 .. 7 : MaskOut(c, idx)[i] = IF i = idx THEN 0 ELSE c[i]
        /\ \A i \in 0 .. 7 : SetCfg(c, 1, idx)[i] = IF i = idx THEN 1 ELSE c[i]
    BY <2>1 DEF NibblesAre
  <2>3. CASE v = 1 /\ d = SetCfg(c, 1, idx)
    BY <2>2, <2>3
  <2>4. CASE v = 0 /\ d = MaskOut(c, idx)
    BY <2>2, <2>4
  <2> QED
    BY <1>5, <2>3, <2>4
<1>9. JmpAsked(s, d, b, t)
  <2>1. ASSUME NEW i \in 0 .. NJMP - 1
        PROVE  /\ d[i] = b[i]
               /\ s[jmpbound(i, 0)] = IF b[i] # 0 THEN Low(t, "jmp", i) ELSE Zero
               /\ s[jmpbound(i, 1)] = IF b[i] # 0 THEN High(t, "jmp", i) ELSE Zero
    <3>1. i \in 0 .. 7
      BY DEF NJMP
    <3>2. CASE i = idx
      BY <1>5, <1>6, <1>7, <1>8, <3>1, <3>2
    <3>3. CASE i # idx
      <4>1. /\ c[i] = a[i]
            /\ m[jmpbound(i, 0)] = IF a[i] # 0 THEN Low(t, "jmp", i) ELSE Zero
            /\ m[jmpbound(i, 1)] = IF a[i] # 0 THEN High(t, "jmp", i) ELSE Zero
        BY <1>1 DEF JmpAsked
      <4>2. /\ b[i] = a[i] /\ d[i] = c[i]
            /\ s[jmpbound(i, 0)] = m[jmpbound(i, 0)] /\ s[jmpbound(i, 1)] = m[jmpbound(i, 1)]
        BY <1>6, <1>7, <1>8, <3>1, <3>3
      <4> QED
        BY <4>1, <4>2
    <3> QED
      BY <3>2, <3>3
  <2> QED
    BY <2>1 DEF JmpAsked
<1> QED
  BY <1>6, <1>7, <1>9, CfgBack

\* What one call of bound.c by the host does to the words m of t, where a was
\* asked for before.
Asks(m, s, a, b, t) ==
  \/ \E i \in 0 .. 7, prot \in {LIBCFG_R, LIBCFG_R + LIBCFG_W} :
       /\ s = lps_membound_set(m, i, prot, Low(t, "mem", i), High(t, "mem", i))
       /\ b = [a EXCEPT !.mem[i] = LIBCFG_V + prot]
  \/ \E i \in 0 .. 7 : s = lps_membound_clear(m, i) /\ b = [a EXCEPT !.mem[i] = 0]
  \/ \E i \in 0 .. NJMP - 1 :
       /\ s = lps_jmpbound_set(m, i, Low(t, "jmp", i), High(t, "jmp", i))
       /\ b = [a EXCEPT !.jmp[i] = JMPCFG_V]
  \/ \E i \in 0 .. NJMP - 1 : s = lps_jmpbound_clear(m, i) /\ b = [a EXCEPT !.jmp[i] = 0]

\* It keeps the bounds the ones asked for.
LEMMA AskedKept ==
  ASSUME NEW m, DOMAIN m = Words, NEW s, NEW a, NEW b, NEW t,
         Bounded(m, a, t), AskShape(a), Asks(m, s, a, b, t)
  PROVE  Bounded(s, b, t) /\ AskShape(b) /\ SameBelow(m, s)
<1>1. /\ m[OFFSET_MEMCFG][1] = "cfg" /\ MemAsked(m, m[OFFSET_MEMCFG][2], a.mem, t)
      /\ m[OFFSET_JMPCFG][1] = "cfg" /\ JmpAsked(m, m[OFFSET_JMPCFG][2], a.jmp, t)
  BY DEF Bounded
<1>2. CfgOf(m[OFFSET_MEMCFG]) = m[OFFSET_MEMCFG][2] /\ CfgOf(m[OFFSET_JMPCFG]) = m[OFFSET_JMPCFG][2]
  BY <1>1 DEF CfgOf
<1>3. DOMAIN a = {"mem", "jmp"} /\ DOMAIN a.mem = 0 .. 7 /\ DOMAIN a.jmp = 0 .. NJMP - 1
  BY DEF AskShape
<1>4. ASSUME NEW i \in 0 .. 7, NEW prot \in {LIBCFG_R, LIBCFG_R + LIBCFG_W}, NEW e,
             MemCall(m, s, i, prot, t, a.mem, e),
             b = [a EXCEPT !.mem = e]
      PROVE  Bounded(s, b, t) /\ AskShape(b) /\ SameBelow(m, s)
  <2>1. MemAsked(m, CfgOf(m[OFFSET_MEMCFG]), a.mem, t)
    BY <1>1, <1>2
  <2>2. /\ SameBelow(m, s) /\ SameJmp(m, s) /\ DOMAIN e = 0 .. 7
        /\ s[OFFSET_MEMCFG][1] = "cfg" /\ MemAsked(s, s[OFFSET_MEMCFG][2], e, t)
    <3>1. PICK f : f = a.mem
      OBVIOUS
    <3>2. DOMAIN f = 0 .. 7 /\ MemAsked(m, CfgOf(m[OFFSET_MEMCFG]), f, t) /\ MemCall(m, s, i, prot, t, f, e)
      BY <1>3, <1>4, <2>1, <3>1
    <3> QED
      BY <3>2, MemBoundFacts, Zenon
  <2>3. b.mem = e /\ b.jmp = a.jmp /\ DOMAIN b = {"mem", "jmp"}
    BY <1>3, <1>4
  <2>4. s[OFFSET_JMPCFG] = m[OFFSET_JMPCFG]
    BY <2>2 DEF SameJmp
  <2>5. JmpAsked(s, s[OFFSET_JMPCFG][2], b.jmp, t)
    BY <1>1, <2>2, <2>3, <2>4, Apart
  <2> QED
    BY <1>1, <1>3, <2>2, <2>3, <2>4, <2>5 DEF Bounded, AskShape
<1>5. ASSUME NEW i \in 0 .. NJMP - 1, NEW e,
             JmpCall(m, s, i, t, a.jmp, e),
             b = [a EXCEPT !.jmp = e]
      PROVE  Bounded(s, b, t) /\ AskShape(b) /\ SameBelow(m, s)
  <2>1. JmpAsked(m, CfgOf(m[OFFSET_JMPCFG]), a.jmp, t)
    BY <1>1, <1>2
  <2>2. /\ SameBelow(m, s) /\ SameMem(m, s) /\ DOMAIN e = 0 .. NJMP - 1
        /\ s[OFFSET_JMPCFG][1] = "cfg" /\ JmpAsked(s, s[OFFSET_JMPCFG][2], e, t)
    BY <1>3, <1>5, <2>1, JmpBoundFacts
  <2>3. b.jmp = e /\ b.mem = a.mem /\ DOMAIN b = {"mem", "jmp"}
    BY <1>3, <1>5
  <2>4. s[OFFSET_MEMCFG] = m[OFFSET_MEMCFG]
    BY <2>2 DEF SameMem
  <2>5. MemAsked(s, s[OFFSET_MEMCFG][2], b.mem, t)
    BY <1>1, <2>2, <2>3, <2>4, Apart
  <2> QED
    BY <1>1, <1>3, <2>2, <2>3, <2>4, <2>5 DEF Bounded, AskShape
<1>6. LIBCFG_R \in {LIBCFG_R, LIBCFG_R + LIBCFG_W}
  OBVIOUS
<1>7. CASE \E i \in 0 .. 7, prot \in {LIBCFG_R, LIBCFG_R + LIBCFG_W} :
             /\ s = lps_membound_set(m, i, prot, Low(t, "mem", i), High(t, "mem", i))
             /\ b = [a EXCEPT !.mem[i] = LIBCFG_V + prot]
  <2>1. PICK i \in 0 .. 7, prot \in {LIBCFG_R, LIBCFG_R + LIBCFG_W} :
             /\ s = lps_membound_set(m, i, prot, Low(t, "mem", i), High(t, "mem", i))
             /\ b = [a EXCEPT !.mem[i] = LIBCFG_V + prot]
    BY <1>7
  <2>2. PICK e : e = [a.mem EXCEPT ![i] = LIBCFG_V + prot]
    OBVIOUS
  <2>3. b = [a EXCEPT !.mem = e]
    BY <2>1, <2>2
  <2> QED
    BY <1>4, <2>1, <2>2, <2>3 DEF MemCall
<1>8. CASE \E i \in 0 .. 7 : s = lps_membound_clear(m, i) /\ b = [a EXCEPT !.mem[i] = 0]
  <2>1. PICK i \in 0 .. 7 : s = lps_membound_clear(m, i) /\ b = [a EXCEPT !.mem[i] = 0]
    BY <1>8
  <2>2. PICK e : e = [a.mem EXCEPT ![i] = 0]
    OBVIOUS
  <2>3. b = [a EXCEPT !.mem = e]
    BY <2>1, <2>2
  <2> QED
    BY <1>4, <1>6, <2>1, <2>2, <2>3 DEF MemCall
<1>9. CASE \E i \in 0 .. NJMP - 1 : /\ s = lps_jmpbound_set(m, i, Low(t, "jmp", i), High(t, "jmp", i))
                                    /\ b = [a EXCEPT !.jmp[i] = JMPCFG_V]
  <2>1. PICK i \in 0 .. NJMP - 1 : /\ s = lps_jmpbound_set(m, i, Low(t, "jmp", i), High(t, "jmp", i))
                                   /\ b = [a EXCEPT !.jmp[i] = JMPCFG_V]
    BY <1>9
  <2>2. PICK e : e = [a.jmp EXCEPT ![i] = JMPCFG_V]
    OBVIOUS
  <2>3. b = [a EXCEPT !.jmp = e]
    BY <2>1, <2>2
  <2> QED
    BY <1>5, <2>1, <2>2, <2>3 DEF JmpCall
<1>10. CASE \E i \in 0 .. NJMP - 1 : s = lps_jmpbound_clear(m, i) /\ b = [a EXCEPT !.jmp[i] = 0]
  <2>1. PICK i \in 0 .. NJMP - 1 : s = lps_jmpbound_clear(m, i) /\ b = [a EXCEPT !.jmp[i] = 0]
    BY <1>10
  <2>2. PICK e : e = [a.jmp EXCEPT ![i] = 0]
    OBVIOUS
  <2>3. b = [a EXCEPT !.jmp = e]
    BY <2>1, <2>2
  <2> QED
    BY <1>5, <2>1, <2>2, <2>3 DEF JmpCall
<1> QED
  BY <1>7, <1>8, <1>9, <1>10 DEF Asks

\* A new context: the box is its only bound, and its first return is to the
\* sandbox's entry.
LEMMA NewFacts ==
  ASSUME NEW t, NEW m, m = NewWords(t)
  PROVE  DOMAIN m = Words /\ Bounded(m, NoAsk, t) /\ AskShape(NoAsk) /\ Unused(t, m, 0, "start")
<1>1. PICK m1 : m1 = [[o \in Words |-> Zero] EXCEPT ![OFFSET["sp"]] = User(t, "sp", 0), ![544] = Pc(t, 0, 0)]
  OBVIOUS
<1>2. PICK m2 : m2 = lps_membound_set(m1, 0, LIBCFG_R + LIBCFG_W, Low(t, "mem", 0), High(t, "mem", 0))
  OBVIOUS
<1>3. m = lps_jmpbound_set(m2, 0, Low(t, "jmp", 0), High(t, "jmp", 0))
  BY <1>1, <1>2 DEF NewWords, OFFSET_UEPC
<1>4. /\ OFFSET["sp"] \in Words /\ 32 <= OFFSET["sp"] /\ OFFSET["sp"] < 288 /\ OFFSET["sp"] \in Nat
      /\ 544 \in Words /\ OFFSET_UEPC = 544
  BY RegWords, Names, TrapWords DEF OFFSET_UEPC
<1>5. /\ DOMAIN m1 = Words /\ m1[OFFSET["sp"]] = User(t, "sp", 0) /\ m1[544] = Pc(t, 0, 0)
      /\ \A o \in Words \ {OFFSET["sp"], 544} : m1[o] = Zero
  BY <1>1, <1>4
<1>6. \A o \in Words : o >= 576 => m1[o] = Zero
  BY <1>4, <1>5, TrapWords
<1>7. /\ m1[OFFSET_MEMCFG] = Zero /\ m1[OFFSET_JMPCFG] = Zero
      /\ \A i \in 0 .. NMEM - 1 : m1[membound(i, 0)] = Zero /\ m1[membound(i, 1)] = Zero
      /\ \A i \in 0 .. NJMP - 1 : m1[jmpbound(i, 0)] = Zero /\ m1[jmpbound(i, 1)] = Zero
  <2>1. m1[OFFSET_MEMCFG] = Zero /\ m1[OFFSET_JMPCFG] = Zero
    BY <1>6, TrapWords, BoundWords
  <2>2. ASSUME NEW i \in 0 .. NMEM - 1 PROVE m1[membound(i, 0)] = Zero /\ m1[membound(i, 1)] = Zero
    <3>1. 0 \in 0 .. 1 /\ 1 \in 0 .. 1 /\ i \in Int /\ 0 <= i
      BY DEF NMEM
    <3>2. membound(i, 0) \in Words /\ membound(i, 1) \in Words
      BY <3>1, TrapWords
    <3>3. membound(i, 0) >= 576 /\ membound(i, 1) >= 576
      BY <3>1, BoundWords
    <3> QED
      BY <1>6, <3>2, <3>3
  <2>3. ASSUME NEW i \in 0 .. NJMP - 1 PROVE m1[jmpbound(i, 0)] = Zero /\ m1[jmpbound(i, 1)] = Zero
    <3>1. 0 \in 0 .. 1 /\ 1 \in 0 .. 1 /\ i \in Int /\ 0 <= i
      BY DEF NJMP
    <3>2. jmpbound(i, 0) \in Words /\ jmpbound(i, 1) \in Words
      BY <3>1, TrapWords
    <3>3. jmpbound(i, 0) >= 576 /\ jmpbound(i, 1) >= 576
      BY <3>1, BoundWords
    <3> QED
      BY <1>6, <3>2, <3>3
  <2> QED
    BY <2>1, <2>2, <2>3
<1>8. CfgOf(Zero) = NoCfg
  BY DEF CfgOf, Zero
<1>9. PICK z : z = [i \in 0 .. 7 |-> 0]
  OBVIOUS
<1>10. DOMAIN z = 0 .. 7 /\ MemAsked(m1, CfgOf(m1[OFFSET_MEMCFG]), z, t)
  <2>1. CfgOf(m1[OFFSET_MEMCFG]) = NoCfg
    BY <1>7, <1>8
  <2>2. /\ \A i \in 0 .. 7 : NoCfg[i] = 0 /\ z[i] = 0
        /\ \A i \in 8 .. 15 : NoCfg[i] = 0
    BY <1>9 DEF NoCfg
  <2>3. \A i \in 0 .. NMEM - 1 : i < 8 => z[i] = 0
    BY <2>2 DEF NMEM
  <2>4. \A i \in 0 .. NMEM - 1 : ~(i < 8 /\ z[i] # 0)
    BY <2>3
  <2> QED
    BY <1>7, <1>9, <2>1, <2>2, <2>4 DEF MemAsked
<1>11. NoAsk.mem = [z EXCEPT ![0] = LIBCFG_V + (LIBCFG_R + LIBCFG_W)]
  BY <1>9 DEF NoAsk, LIBCFG_V, LIBCFG_R, LIBCFG_W
<1>12. MemCall(m1, m2, 0, LIBCFG_R + LIBCFG_W, t, z, NoAsk.mem)
  BY <1>2, <1>11 DEF MemCall
<1>13. /\ SameBelow(m1, m2) /\ SameJmp(m1, m2) /\ DOMAIN NoAsk.mem = 0 .. 7
       /\ m2[OFFSET_MEMCFG][1] = "cfg" /\ MemAsked(m2, m2[OFFSET_MEMCFG][2], NoAsk.mem, t)
  <2>1. 0 \in 0 .. 7 /\ LIBCFG_R + LIBCFG_W \in {LIBCFG_R, LIBCFG_R + LIBCFG_W}
    OBVIOUS
  <2> QED
    BY <1>5, <1>10, <1>12, <2>1, MemBoundFacts, ZenonT(40)
<1>14. PICK y : y = [i \in 0 .. NJMP - 1 |-> 0]
  OBVIOUS
<1>15. DOMAIN y = 0 .. NJMP - 1 /\ JmpAsked(m2, CfgOf(m2[OFFSET_JMPCFG]), y, t)
  <2>1. m2[OFFSET_JMPCFG] = Zero
    BY <1>7, <1>13 DEF SameJmp
  <2>2. CfgOf(m2[OFFSET_JMPCFG]) = NoCfg
    BY <1>8, <2>1
  <2>3. \A i \in 0 .. NJMP - 1 : NoCfg[i] = 0 /\ y[i] = 0
    BY <1>14 DEF NoCfg, NJMP
  <2>4. JmpAsked(m1, NoCfg, y, t)
    BY <1>7, <2>3 DEF JmpAsked
  <2> QED
    BY <1>13, <1>14, <2>2, <2>4, Apart
<1>16. NoAsk.jmp = [y EXCEPT ![0] = JMPCFG_V]
  BY <1>14 DEF NoAsk
<1>17. JmpCall(m2, m, 0, t, y, NoAsk.jmp)
  BY <1>3, <1>16 DEF JmpCall
<1>18. DOMAIN m2 = Words
  BY <1>13 DEF SameBelow
<1>19. /\ SameBelow(m2, m) /\ SameMem(m2, m) /\ DOMAIN NoAsk.jmp = 0 .. NJMP - 1
       /\ m[OFFSET_JMPCFG][1] = "cfg" /\ JmpAsked(m, m[OFFSET_JMPCFG][2], NoAsk.jmp, t)
  <2>1. 0 \in 0 .. NJMP - 1
    BY DEF NJMP
  <2> QED
    BY <1>15, <1>17, <1>18, <2>1, JmpBoundFacts, Zenon
<1>20. Bounded(m, NoAsk, t)
  <2>1. m[OFFSET_MEMCFG] = m2[OFFSET_MEMCFG]
    BY <1>19 DEF SameMem
  <2>2. MemAsked(m, m2[OFFSET_MEMCFG][2], NoAsk.mem, t)
    BY <1>13, <1>19, Apart
  <2> QED
    BY <1>13, <1>19, <2>1, <2>2 DEF Bounded
<1>21. DOMAIN m = Words /\ \A o \in Words : o < 576 => m[o] = m1[o]
  BY <1>13, <1>19 DEF SameBelow
<1>22. Unused(t, m, 0, "start")
  <2>1. m[OFFSET_UEPC] = Pc(t, 0, 0)
    BY <1>4, <1>5, <1>21
  <2>2. ASSUME NEW q \in Regs PROVE m[OFFSET[q]] = IF q = "sp" THEN User(t, "sp", 0) ELSE Zero
    <3>1. OFFSET[q] \in Words /\ OFFSET[q] \in Nat /\ OFFSET[q] < 288
      BY RegWords
    <3>2. m[OFFSET[q]] = m1[OFFSET[q]]
      BY <1>21, <3>1
    <3>3. CASE q = "sp"
      BY <1>5, <3>2, <3>3
    <3>4. CASE q # "sp"
      <4>1. OFFSET[q] # OFFSET["sp"]
        BY <3>4, RegWords, Names
      <4>2. OFFSET[q] \in Words \ {OFFSET["sp"], 544}
        BY <3>1, <4>1
      <4> QED
        BY <1>5, <3>2, <3>4, <4>2
    <3> QED
      BY <3>3, <3>4
  <2> QED
    BY <2>1, <2>2 DEF Unused
<1>23. AskShape(NoAsk)
  <2>1. DOMAIN NoAsk = {"mem", "jmp"}
    BY DEF NoAsk
  <2> QED
    BY <1>13, <1>19, <2>1 DEF AskShape
<1> QED
  BY <1>20, <1>21, <1>22, <1>23

-----------------------------------------------------------------------------
(* One task on one worker *)

\* The tuples that name a task or a worker name it once.
LEMMA Owners ==
  \A x : Owner(Ctx(x)) = x /\ Owner(Thread(x)) = x /\ Owner(Tls(x)) = x
         /\ \A n, k : Owner(Pc(x, n, k)) = x
BY DEF Owner, Ctx, Thread, Tls, Pc

\* Where kswitch returns to.
LEMMA Targets ==
  \A name : Target(Code(name)) = name
BY DEF Target, Code

\* A register file loaded from a context's words.
LEMMA Restored ==
  ASSUME NEW m
  PROVE  DOMAIN RestoreRegs(m) = Regs /\ \A q \in Regs : RestoreRegs(m)[q] = m[OFFSET[q]]
BY DEF RestoreRegs

\* The first return into the sandbox.
LEMMA EnterFirst ==
  ASSUME NEW w, NEW t, NEW r, NEW c, NEW d, NEW m, DOMAIN m = Words, NEW n, NEW l, NEW s,
         Entered("lps_ctx_entry", w, t, r, c, m, n, l), s = EntryWords(m, r),
         d.uscratch = Ctx(t), d.uepc = s[OFFSET_UEPC]
  PROVE  Entered("user", w, t, RestoreRegs(s), d, s, n, l) /\ SameBounds(m, s)
<1>1. AtHome(w, t, r) /\ Unused(t, m, n, l)
  BY DEF Entered
<1>2. /\ SameBounds(m, s) /\ \A q \in Regs : s[OFFSET[q]] = m[OFFSET[q]]
      /\ s[OFFSET_UEPC] = m[OFFSET_UEPC]
      /\ s[OFFSET_KSP] = r["sp"] /\ s[OFFSET_KGP] = r["gp"] /\ s[OFFSET_KTP] = r["tp"]
  BY EntryFacts
<1>3. Based(t, s, w)
  BY <1>1, <1>2 DEF AtHome, Based
<1>4. l = "start" /\ n = 0 /\ d.uepc = Pc(t, n, 0)
  BY <1>1, <1>2 DEF Unused
<1>5. \A q \in Regs : RestoreRegs(s)[q] = IF q = "sp" THEN User(t, "sp", 0) ELSE Zero
  BY <1>1, <1>2, Restored DEF Unused
<1> QED
  BY <1>2, <1>3, <1>4, <1>5 DEF Entered

\* The return after an interrupt.
LEMMA EnterAgain ==
  ASSUME NEW w, NEW t, NEW r, NEW c, NEW d, NEW m, NEW n, NEW l,
         Entered("back_irq", w, t, r, c, m, n, l),
         d.uscratch = Ctx(t), d.uepc = m[OFFSET_UEPC]
  PROVE  Entered("user", w, t, RestoreRegs(m), d, m, n, l)
<1>1. Based(t, m, w)
  BY DEF Entered
<1>2. l = "irq" /\ Saved(t, m, n, l, 0)
  BY DEF Entered, BackAt
<1>3. \A q \in Regs : RestoreRegs(m)[q] = User(t, q, n)
  BY <1>2, Restored DEF Saved
<1>4. d.uepc = Pc(t, n, 0)
  BY <1>2 DEF Saved
<1> QED
  BY <1>1, <1>2, <1>3, <1>4 DEF Entered

\* The return after a system call, with its result.
LEMMA EnterResult ==
  ASSUME NEW w, NEW t, NEW d, NEW m, DOMAIN m = Words, NEW n, NEW s,
         Based(t, m, w), Saved(t, m, n, "call", 4),
         Answered(m, s, Ret(t, n)),
         d.uscratch = Ctx(t), d.uepc = s[OFFSET_UEPC]
  PROVE  Entered("user", w, t, RestoreRegs(s), d, s, n, "call") /\ SameBounds(m, s)
<1>1. /\ SameBounds(m, s) /\ SameBase(m, s) /\ s[OFFSET_UEPC] = m[OFFSET_UEPC]
      /\ \A q \in Regs : s[OFFSET[q]] = IF q = "a0" THEN Ret(t, n) ELSE m[OFFSET[q]]
  BY ResultFacts
<1>2. Based(t, s, w)
  BY <1>1 DEF Based, SameBase
<1>3. \A q \in Regs : RestoreRegs(s)[q] = IF q = "a0" THEN Ret(t, n) ELSE User(t, q, n)
  BY <1>1, Restored DEF Saved
<1>4. d.uepc = Pc(t, n, 4)
  BY <1>1 DEF Saved
<1> QED
  BY <1>1, <1>2, <1>3, <1>4 DEF Entered

\* The handler moves past the ecall.
LEMMA Advanced ==
  ASSUME NEW w, NEW t, NEW m, DOMAIN m = Words, NEW n, NEW l, NEW s,
         Based(t, m, w), Saved(t, m, n, l, 0), s = NextInsn(m)
  PROVE  Based(t, s, w) /\ Saved(t, s, n, l, 4) /\ SameBounds(m, s)
<1>1. /\ SameBounds(m, s) /\ SameBase(m, s) /\ \A q \in Regs : s[OFFSET[q]] = m[OFFSET[q]]
      /\ s[OFFSET_UEPC] = Pc(t, n, 4)
  BY InsnFacts DEF Saved
<1> QED
  BY <1>1 DEF Based, SameBase, Saved

\* The words s and registers y after SAVE_ALL in stage n + 1 of the sandbox of t.
Trapped(t, m, n, g, s, y) ==
  \E x, e :
    /\ x = [q \in Regs |-> User(t, q, n + 1)]
    /\ e.uscratch = x["s0"] /\ e.uepc = Pc(t, n + 1, 0) /\ e.ucause = <<g>> /\ s = SaveWords(m, x, e)
    /\ y = [SaveRegs(m, x, Ctx(t)) EXCEPT !["a0"] = Ctx(t), !["s1"] = Ctx(t)]

\* The sandbox traps.
LEMMA EnterHandler ==
  ASSUME NEW w, NEW t, NEW r, NEW c, NEW m, DOMAIN m = Words, NEW n \in Nat, NEW l,
         Entered("user", w, t, r, c, m, n, l),
         NEW g, NEW s, NEW y, NEW d, Trapped(t, m, n, g, s, y)
  PROVE  /\ Entered("handler", w, t, y, d, s, n + 1, IF g = "IRQ_U_TIME" THEN "irq" ELSE "call")
         /\ SameBounds(m, s) /\ DOMAIN y = Regs
<1>0. PICK x, e :
        /\ x = [q \in Regs |-> User(t, q, n + 1)]
        /\ e.uscratch = x["s0"] /\ e.uepc = Pc(t, n + 1, 0) /\ e.ucause = <<g>> /\ s = SaveWords(m, x, e)
        /\ y = [SaveRegs(m, x, Ctx(t)) EXCEPT !["a0"] = Ctx(t), !["s1"] = Ctx(t)]
  BY DEF Trapped
<1>1. Based(t, m, w)
  BY DEF Entered
<1>2. /\ SameBounds(m, s) /\ SameBase(m, s)
      /\ \A q \in Regs : s[OFFSET[q]] = x[q]
      /\ s[OFFSET_UEPC] = e.uepc /\ s[OFFSET_UCAUSE] = e.ucause
  BY <1>0, SaveFacts
<1>3. Based(t, s, w)
  BY <1>1, <1>2 DEF Based, SameBase
<1>4. PICK h : h = IF g = "IRQ_U_TIME" THEN "irq" ELSE "call"
  OBVIOUS
<1>5. n + 1 # 0
  OBVIOUS
<1>6. Saved(t, s, n + 1, h, 0)
  BY <1>0, <1>2, <1>4, <1>5 DEF Saved
<1>7. DOMAIN x = Regs
  BY <1>0
<1>8. PICK z : z = SaveRegs(m, x, Ctx(t))
  OBVIOUS
<1>9. /\ DOMAIN z = Regs /\ z["s0"] = Ctx(t)
      /\ z["sp"] = m[OFFSET_KSP] /\ z["gp"] = m[OFFSET_KGP] /\ z["tp"] = m[OFFSET_KTP]
  BY <1>7, <1>8, Names DEF SaveRegs
<1>10. y = [z EXCEPT !["a0"] = Ctx(t), !["s1"] = Ctx(t)]
  BY <1>0, <1>8
<1>11. /\ DOMAIN y = Regs /\ y["s0"] = Ctx(t) /\ y["a0"] = Ctx(t) /\ y["s1"] = Ctx(t)
       /\ y["sp"] = m[OFFSET_KSP] /\ y["gp"] = m[OFFSET_KGP] /\ y["tp"] = m[OFFSET_KTP]
  BY <1>9, <1>10, Names
<1>12. AtHome(w, t, y)
  BY <1>1, <1>11 DEF AtHome, Based
<1>13. s[OFFSET_UCAUSE] = <<"IRQ_U_TIME">> <=> h = "irq"
  BY <1>0, <1>2, <1>4
<1>14. Entered("handler", w, t, y, d, s, n + 1, h)
  BY <1>3, <1>6, <1>11, <1>12, <1>13 DEF Entered
<1> QED
  BY <1>2, <1>4, <1>11, <1>14

\* What kswitch saves of the registers r, and what it makes of them with k.
Switched(r, k, back, y, z) ==
  LET x == [r EXCEPT !["ra"] = Code(back)] IN y = KSave(x) /\ z = KLoad(x, k)

\* kswitch out of a handler: the loop goes on, and the task is stopped.
LEMMA Leaves ==
  ASSUME NEW w, NEW t, NEW r, NEW k, NEW back, NEW y, NEW z,
         AtHome(w, t, r), r["s0"] = Ctx(t), r["s1"] = Ctx(t), DOMAIN r = Regs,
         CallerKept(w, t, k), Switched(r, k, back, y, z)
  PROVE  /\ InLoop(w, z) /\ z["s1"] = Thread(t) /\ DOMAIN z = Regs /\ Target(k["ra"]) = "after_run"
         /\ y["ra"] = Code(back) /\ y["sp"] = Kstack(t) /\ y["s0"] = Ctx(t) /\ y["s1"] = Ctx(t)
<1>1. PICK x : x = [r EXCEPT !["ra"] = Code(back)]
  OBVIOUS
<1>2. x["ra"] = Code(back) /\ \A q \in Regs \ {"ra"} : x[q] = r[q]
  BY <1>1, Names
<1>3. y = [q \in KRegs |-> x[q]]
  BY <1>1 DEF KSave, Switched
<1>4. y["ra"] = Code(back) /\ y["sp"] = Kstack(t) /\ y["s0"] = Ctx(t) /\ y["s1"] = Ctx(t)
  BY <1>2, <1>3, Names DEF AtHome
<1>5. z = [q \in Regs |-> IF q \in KRegs THEN k[q]
                          ELSE IF q \in {"gp", "tp", "a0"} THEN x[q] ELSE Junk]
  BY <1>1 DEF KLoad, Switched
<1>6. "gp" \notin KRegs /\ "tp" \notin KRegs
  BY DEF KRegs
<1>7. DOMAIN z = Regs /\ z["tp"] = Tls(w) /\ z["gp"] = Global /\ \A q \in KRegs : z[q] = k[q]
  BY <1>2, <1>5, <1>6, Names DEF AtHome
<1>8. InLoop(w, z) /\ z["s1"] = Thread(t)
  BY <1>7, Names DEF InLoop, CallerKept
<1>9. Target(k["ra"]) = "after_run"
  BY Targets DEF CallerKept
<1> QED
  BY <1>4, <1>7, <1>8, <1>9

\* lps_thread_run: into a handler that had left, or to the entry of a new context.
LEMMA Runs ==
  ASSUME NEW w, NEW t, NEW r, NEW x, NEW c, NEW m, NEW kr, NEW n, NEW l,
         InLoop(w, r), DOMAIN r = Regs, Stopped(t, m, kr, n, l, w),
         x = [r EXCEPT !["a0"] = Ctx(t), !["s1"] = Thread(t), !["ra"] = Code("after_run")]
  PROVE  /\ CallerKept(w, t, KSave(x)) /\ DOMAIN KLoad(x, kr) = Regs
         /\ Entered(Target(kr["ra"]), w, t, KLoad(x, kr), c, m, n, l)
<1>1. /\ x["a0"] = Ctx(t) /\ x["s1"] = Thread(t) /\ x["ra"] = Code("after_run")
      /\ \A q \in Regs \ {"a0", "s1", "ra"} : x[q] = r[q]
  BY Names
<1>2. "a0" \notin KRegs /\ "gp" \notin KRegs /\ "tp" \notin KRegs
  BY DEF KRegs
<1>3. \A q \in KRegs : KSave(x)[q] = x[q]
  BY DEF KSave
<1>4. CallerKept(w, t, KSave(x))
  BY <1>1, <1>2, <1>3, Names DEF CallerKept, InLoop
<1>5. PICK z : z = KLoad(x, kr)
  OBVIOUS
<1>6. z = [q \in Regs |-> IF q \in KRegs THEN kr[q]
                          ELSE IF q \in {"gp", "tp", "a0"} THEN x[q] ELSE Junk]
  BY <1>5 DEF KLoad
<1>7. /\ DOMAIN z = Regs /\ z["tp"] = Tls(w) /\ z["gp"] = Global /\ z["a0"] = Ctx(t)
      /\ \A q \in KRegs : z[q] = kr[q]
  BY <1>1, <1>2, <1>6, Names DEF InLoop
<1>8. CASE kr = kregs_init(t) /\ Unused(t, m, n, l)
  <2>1. kr["ra"] = Code("lps_ctx_entry") /\ kr["sp"] = Kstack(t)
    BY <1>8, Names DEF kregs_init
  <2>2. Target(kr["ra"]) = "lps_ctx_entry"
    BY <2>1, Targets
  <2>3. AtHome(w, t, z)
    BY <1>7, <2>1, Names DEF AtHome
  <2> QED
    BY <1>4, <1>5, <1>7, <1>8, <2>2, <2>3 DEF Entered
<1>9. CASE /\ Based(t, m, w)
           /\ kr["sp"] = Kstack(t) /\ kr["s0"] = Ctx(t) /\ kr["s1"] = Ctx(t)
           /\ \E name \in {"back_irq", "back_call", "back_block"}, k \in {0, 4} :
                kr["ra"] = Code(name) /\ BackAt(name, l, k) /\ Saved(t, m, n, l, k)
  <2>1. PICK name \in {"back_irq", "back_call", "back_block"}, k \in {0, 4} :
          kr["ra"] = Code(name) /\ BackAt(name, l, k) /\ Saved(t, m, n, l, k)
    BY <1>9
  <2>2. Target(kr["ra"]) = name
    BY <2>1, Targets
  <2>3. AtHome(w, t, z) /\ z["s0"] = Ctx(t) /\ z["s1"] = Ctx(t)
    BY <1>7, <1>9, Names DEF AtHome
  <2>4. Entered(name, w, t, z, c, m, n, l)
    BY <1>9, <2>1, <2>3 DEF Entered
  <2> QED
    BY <1>4, <1>5, <1>7, <2>2, <2>4
<1> QED
  BY <1>8, <1>9 DEF Stopped

-----------------------------------------------------------------------------
(* The invariant holds at the start *)

\* There is a worker for the single-core loops.
LEMMA OneWorker == RRWorker \in Workers
BY CtxAssumption DEF RRWorker

\* Every task is new and every loop has its registers.
LEMMA InitCtx == Init => CtxInv
<1> SUFFICES ASSUME Init PROVE CtxInv
  OBVIOUS
<1>1. Shape
  <2>1. host \in Hosts /\ setups \in 0 .. Running /\ traps \in [Tasks -> Nat]
    BY CtxAssumption DEF Init, Running
  <2>2. /\ DOMAIN pc = Workers /\ DOMAIN reg = Workers /\ DOMAIN csr = Workers
        /\ DOMAIN tls = Workers /\ DOMAIN cur = Workers
        /\ DOMAIN area = Tasks /\ DOMAIN kregs = Tasks /\ DOMAIN state = Tasks
        /\ DOMAIN place = Tasks /\ DOMAIN last = Tasks /\ DOMAIN asked = Tasks
    BY DEF Init
  <2>3. ASSUME NEW w \in Workers PROVE DOMAIN reg[w] = Regs /\ DOMAIN csr[w] = {"uscratch", "uepc", "dasics"}
    <3>1. reg[w] = LoopRegs(w)
      BY DEF Init
    <3>2. csr[w] = [uscratch |-> Junk, uepc |-> Junk, dasics |-> [n \in DasicsCSRs |-> Junk]]
      BY DEF Init
    <3> QED
      BY <3>1, <3>2 DEF LoopRegs
  <2>4. \A t \in Tasks : DOMAIN area[t] = Words
    BY NewFacts DEF Init
  <2> QED
    BY <2>1, <2>2, <2>3, <2>4 DEF Shape
<1>2. \A w \in Workers : pc[w] = "loop" /\ cur[w] = {} /\ reg[w] = LoopRegs(w)
  BY DEF Init
<1>3. ASSUME NEW w \in Workers PROVE InLoop(w, LoopRegs(w))
  <2>1. \A q \in Regs : LoopRegs(w)[q] = CASE q = "sp" -> Pstack(w) [] q = "gp" -> Global
                                           [] q = "tp" -> Tls(w) [] OTHER -> Loop(w, q)
    BY DEF LoopRegs
  <2>2. "gp" \notin KRegs /\ "tp" \notin KRegs
    BY DEF KRegs
  <2> QED
    BY <2>1, <2>2, Names DEF InLoop
<1>4. WorkerInv
  BY <1>2, <1>3 DEF WorkerInv, WorkerOK
<1>5. ASSUME NEW t \in Tasks PROVE TaskOK(t)
  <2>1. /\ area[t] = NewWords(t) /\ kregs[t] = kregs_init(t) /\ traps[t] = 0 /\ last[t] = "start"
        /\ asked[t] = NoAsk /\ place[t] = FirstPlace(host)
    BY DEF Init
  <2>2. Bounded(area[t], NoAsk, t) /\ AskShape(NoAsk) /\ Unused(t, area[t], 0, "start")
    BY <2>1, NewFacts
  <2>3. StoppedOn(t, RRWorker)
    BY <2>1, <2>2 DEF StoppedOn, Stopped
  <2>4. Queued(t, RRWorker)
    BY <2>1, <2>3 DEF Queued
  <2> QED
    BY <2>1, <2>2, <2>4, OneWorker DEF TaskOK
<1> QED
  BY <1>1, <1>4, <1>5 DEF CtxInv, TaskInv

-----------------------------------------------------------------------------
(* What a step of one worker leaves alone *)

\* A wake-up moves a waiting task to the run queue.
Woken(u) == place[u] = <<"wait">> /\ place'[u] = <<"runq">>

\* The step is one of worker w with task t.
StepOf(w, t) ==
  /\ host' = host /\ setups' = setups /\ asked' = asked
  /\ \A v \in Workers \ {w} : /\ pc'[v] = pc[v] /\ reg'[v] = reg[v] /\ csr'[v] = csr[v]
                              /\ tls'[v] = tls[v] /\ cur'[v] = cur[v]
  /\ \A u \in Tasks \ {t} : /\ area'[u] = area[u] /\ kregs'[u] = kregs[u]
                            /\ traps'[u] = traps[u] /\ last'[u] = last[u]
                            /\ (place'[u] = place[u] /\ state'[u] = state[u]) \/ Woken(u)

\* No other worker has the task.
Alone(w, t) ==
  /\ cur[w] \subseteq {t} /\ \A v \in Workers \ {w} : t \notin cur[v]
  /\ setups = Running
  /\ host # "mc" => w = RRWorker

\* Such a step keeps the invariant if it keeps the part about w and t.
LEMMA StepKeeps ==
  ASSUME CtxInv, NEW w \in Workers, NEW t \in Tasks, StepOf(w, t), Alone(w, t),
         Shape', WorkerOK(w)', TaskOK(t)', cur'[w] \subseteq {t}
  PROVE  CtxInv'
<1>1. ASSUME NEW u \in Tasks \ {t}, NEW v, StoppedOn(u, v) PROVE StoppedOn(u, v)'
  BY <1>1 DEF StepOf, StoppedOn
<1>2. ASSUME NEW v \in Workers \ {w} PROVE WorkerOK(v)'
  <2>1. WorkerOK(v)
    BY DEF CtxInv, WorkerInv
  <2>2. /\ pc'[v] = pc[v] /\ reg'[v] = reg[v] /\ csr'[v] = csr[v]
        /\ tls'[v] = tls[v] /\ cur'[v] = cur[v] /\ host' = host
    BY DEF StepOf
  <2>3. CASE pc[v] \in {"loop", "end"} /\ cur[v] = {} /\ InLoop(v, reg[v])
    BY <2>2, <2>3 DEF WorkerOK
  <2>4. ASSUME NEW u \in Tasks, Inside(v, u) PROVE Inside(v, u)'
    <3>1. u # t
      BY <2>4 DEF Inside, Alone
    <3>2. area'[u] = area[u] /\ traps'[u] = traps[u] /\ last'[u] = last[u]
      BY <3>1 DEF StepOf
    <3>3. place'[u] = place[u]
      BY <2>4, <3>1 DEF StepOf, Woken, Inside
    <3> QED
      BY <2>2, <2>4, <3>2, <3>3 DEF Inside
  <2>5. ASSUME NEW u \in Tasks, Outside(v, u) PROVE Outside(v, u)'
    <3>1. u # t
      BY <2>5 DEF Outside, Alone
    <3>2. StoppedOn(u, v) => StoppedOn(u, v)'
      BY <1>1, <3>1
    <3>3. (place'[u] = place[u] /\ state'[u] = state[u]) \/ Woken(u)
      BY <3>1 DEF StepOf
    <3>4. CASE place'[u] = place[u] /\ state'[u] = state[u]
      BY <2>2, <2>5, <3>2, <3>4 DEF Outside
    <3>5. CASE Woken(u)
      BY <2>2, <2>5, <3>2, <3>5 DEF Outside, Woken
    <3> QED
      BY <3>3, <3>4, <3>5
  <2> QED
    BY <2>1, <2>3, <2>4, <2>5 DEF WorkerOK
<1>3. ASSUME NEW u \in Tasks \ {t} PROVE TaskOK(u)'
  <2>1. TaskOK(u)
    BY DEF CtxInv, TaskInv
  <2>2. area'[u] = area[u] /\ asked'[u] = asked[u] /\ traps'[u] = traps[u] /\ host' = host
    BY DEF StepOf
  <2>3. (place'[u] = place[u] /\ state'[u] = state[u]) \/ Woken(u)
    BY DEF StepOf
  <2>4. ASSUME NEW v \in Workers, Queued(u, v) PROVE Queued(u, v)'
    BY <1>1, <2>2, <2>3, <2>4 DEF Queued, Woken
  <2> QED
    BY <2>1, <2>2, <2>3, <2>4 DEF TaskOK, Woken
<1>4. \A v, x \in Workers : v # x => cur'[v] \cap cur'[x] = {}
  <2>1. \A v, x \in Workers : v # x => cur[v] \cap cur[x] = {}
    BY DEF CtxInv, WorkerInv
  <2>2. \A v \in Workers \ {w} : cur'[v] = cur[v] /\ t \notin cur[v]
    BY DEF StepOf, Alone
  <2> QED
    BY <2>1, <2>2
<1>5. host' # "mc" => \A v \in Workers \ {RRWorker} : pc'[v] = "loop"
  BY DEF StepOf, Alone, CtxInv, WorkerInv
<1>6. setups' = Running
  BY DEF StepOf, Alone
<1>7. WorkerInv'
  BY <1>2, <1>4, <1>5, <1>6 DEF WorkerInv
<1>8. TaskInv'
  BY <1>3 DEF TaskInv
<1> QED
  BY <1>7, <1>8 DEF CtxInv

\* A worker that is in some code of a context, and the task it is there for.
LEMMA InContext ==
  ASSUME CtxInv, NEW w \in Workers, pc[w] \notin {"loop", "end", "after_run"}
  PROVE  \E t \in Tasks : Inside(w, t) /\ Alone(w, t)
<1>1. WorkerOK(w)
  BY DEF CtxInv, WorkerInv
<1>2. PICK t \in Tasks : Inside(w, t)
  BY <1>1 DEF WorkerOK, Outside
<1>3. setups = Running
  BY DEF CtxInv, WorkerInv
<1>4. host # "mc" => w = RRWorker
  BY DEF CtxInv, WorkerInv
<1>5. cur[w] = {t}
  BY <1>2 DEF Inside
<1>6. \A v \in Workers \ {w} : t \notin cur[v]
  BY <1>5 DEF CtxInv, WorkerInv
<1> QED
  BY <1>2, <1>3, <1>4, <1>5, <1>6 DEF Alone

-----------------------------------------------------------------------------
(* Into the sandbox and out of the handler *)

\* g is f with v at x.
Sets(f, g, x, v) == DOMAIN g = DOMAIN f /\ g[x] = v /\ \A y \in DOMAIN f \ {x} : g[y] = f[y]

\* EXCEPT does that, and so does no change.
LEMMA SetsIt ==
  ASSUME NEW f, NEW x \in DOMAIN f, NEW v
  PROVE  Sets(f, [f EXCEPT ![x] = v], x, v) /\ Sets(f, f, x, f[x])
BY DEF Sets

\* Tasks other than t stay where they are or are woken.
Beside(t) ==
  /\ DOMAIN place' = Tasks /\ DOMAIN state' = Tasks
  /\ \A u \in Tasks \ {t} : (place'[u] = place[u] /\ state'[u] = state[u]) \/ Woken(u)

\* RESTORE_ALL from the words s of t, the rest of the sandbox's state being what
\* it expects.
LEMMA Returns ==
  ASSUME CtxInv, NEW w \in Workers, NEW t \in Tasks, Inside(w, t), Alone(w, t), NEW s,
         Sets(area, area', t, s), SameBounds(area[t], s), RESTORE_ALL(w, Ctx(t), s),
         UNCHANGED <<host, setups, tls, kregs, traps, cur, last, asked>>,
         Beside(t), place'[t] = place[t],
         \A d : d.uscratch = Ctx(t) /\ d.uepc = s[OFFSET_UEPC] =>
                  Entered("user", w, t, RestoreRegs(s), d, s, traps[t], last[t])
  PROVE  CtxInv'
<1>1. Shape
  BY DEF CtxInv
<1>2. reg' = [reg EXCEPT ![w] = RestoreRegs(s)] /\ pc' = [pc EXCEPT ![w] = "user"]
  BY DEF RESTORE_ALL
<1>3. csr' = [csr EXCEPT ![w].uscratch = Ctx(t), ![w].uepc = s[OFFSET_UEPC]]
  BY DEF RESTORE_ALL
<1>4. /\ pc'[w] = "user" /\ reg'[w] = RestoreRegs(s) /\ DOMAIN pc' = Workers /\ DOMAIN reg' = Workers
      /\ \A v \in Workers \ {w} : pc'[v] = pc[v] /\ reg'[v] = reg[v]
  BY <1>1, <1>2 DEF Shape
<1>5. /\ csr'[w].uscratch = Ctx(t) /\ csr'[w].uepc = s[OFFSET_UEPC] /\ csr'[w].dasics = csr[w].dasics
      /\ DOMAIN csr' = Workers /\ DOMAIN csr'[w] = {"uscratch", "uepc", "dasics"}
      /\ \A v \in Workers \ {w} : csr'[v] = csr[v]
  <2>1. DOMAIN csr = Workers /\ DOMAIN csr[w] = {"uscratch", "uepc", "dasics"}
    BY <1>1 DEF Shape
  <2> QED
    BY <1>3, <2>1
<1>6. area'[t] = s /\ DOMAIN area' = Tasks /\ \A u \in Tasks \ {t} : area'[u] = area[u]
  BY <1>1 DEF Sets, Shape
<1>7. DOMAIN s = Words
  BY DEF SameBounds
<1>8. StepOf(w, t)
  BY <1>4, <1>5, <1>6 DEF StepOf, Beside
<1>9. Shape'
  <2>1. ASSUME NEW v \in Workers PROVE DOMAIN reg'[v] = Regs /\ DOMAIN csr'[v] = {"uscratch", "uepc", "dasics"}
    <3>1. CASE v = w
      BY <1>4, <1>5, <3>1, Restored
    <3>2. CASE v # w
      BY <1>1, <1>4, <1>5, <3>2 DEF Shape
    <3> QED
      BY <3>1, <3>2
  <2>2. \A u \in Tasks : DOMAIN area'[u] = Words
    BY <1>1, <1>6, <1>7 DEF Shape
  <2> QED
    BY <1>1, <1>4, <1>5, <1>6, <2>1, <2>2 DEF Shape, Beside
<1>10. Inside(w, t)'
  <2>1. csr'[w].dasics = lps_load_dasics(area'[t])
    <3>1. csr[w].dasics = lps_load_dasics(area[t])
      BY DEF Inside
    <3>2. lps_load_dasics(s) = lps_load_dasics(area[t])
      BY BoundsKept
    <3> QED
      BY <1>5, <1>6, <3>1, <3>2
  <2>2. Entered(pc'[w], w, t, reg'[w], csr'[w], area'[t], traps'[t], last'[t])
    BY <1>4, <1>5, <1>6
  <2> QED
    BY <2>1, <2>2 DEF Inside
<1>11. WorkerOK(w)'
  BY <1>10 DEF WorkerOK
<1>12. TaskOK(t)'
  <2>1. Bounded(area[t], asked[t], t) /\ AskShape(asked[t])
    BY DEF CtxInv, TaskInv, TaskOK
  <2>2. Bounded(s, asked[t], t)
    BY <2>1, BoundsKept
  <2>3. place'[t] = <<"out">>
    BY DEF Inside
  <2> QED
    BY <1>6, <2>1, <2>2, <2>3 DEF TaskOK
<1>13. cur'[w] \subseteq {t}
  BY DEF Inside
<1> QED
  BY <1>8, <1>9, <1>11, <1>12, <1>13, StepKeeps

\* The handler of t leaves the worker.  It can be resumed, unless the task
\* exits or the program is lps-security.
LEMMA Departs ==
  ASSUME CtxInv, NEW w \in Workers, NEW t \in Tasks, Inside(w, t), Alone(w, t), NEW s, NEW back,
         AtHome(w, t, reg[w]), reg[w]["s0"] = Ctx(t), reg[w]["s1"] = Ctx(t),
         Sets(area, area', t, s), SameBounds(area[t], s), lps_kswitch_from(w, Ctx(t), back),
         UNCHANGED <<host, setups, csr, tls, traps, cur, last, asked>>,
         Beside(t), place'[t] \in {<<"out">>, <<"wait">>},
         \/ place'[t] = <<"out">> /\ (state'[t] # "RUNNABLE" \/ host = "security")
         \/ /\ back \in {"back_irq", "back_call", "back_block"} /\ Based(t, s, w)
            /\ \E k \in {0, 4} : BackAt(back, last[t], k) /\ Saved(t, s, traps[t], last[t], k)
  PROVE  CtxInv'
<1>1. Shape
  BY DEF CtxInv
<1>2. MyTls(w) = w
  BY Owners DEF MyTls, AtHome
<1>3. Owner(Ctx(t)) = t
  BY Owners
<1>4. PICK x : x = [reg[w] EXCEPT !["ra"] = Code(back)]
  OBVIOUS
<1>5. /\ kregs' = [kregs EXCEPT ![t] = KSave(x)]
      /\ reg' = [reg EXCEPT ![w] = KLoad(x, tls[w].kctx)]
      /\ pc' = [pc EXCEPT ![w] = Target(tls[w].kctx["ra"])]
  BY <1>2, <1>3, <1>4 DEF lps_kswitch_from
<1>6. PICK y, z : y = KSave(x) /\ z = KLoad(x, tls[w].kctx)
  OBVIOUS
<1>7. /\ InLoop(w, z) /\ z["s1"] = Thread(t) /\ DOMAIN z = Regs /\ Target(tls[w].kctx["ra"]) = "after_run"
      /\ y["ra"] = Code(back) /\ y["sp"] = Kstack(t) /\ y["s0"] = Ctx(t) /\ y["s1"] = Ctx(t)
  <2>1. CallerKept(w, t, tls[w].kctx) /\ DOMAIN reg[w] = Regs
    BY <1>1 DEF Inside, Shape
  <2>2. Switched(reg[w], tls[w].kctx, back, y, z)
    BY <1>4, <1>6 DEF Switched
  <2> QED
    BY <2>1, <2>2, Leaves
<1>8. /\ pc'[w] = "after_run" /\ reg'[w] = z /\ DOMAIN pc' = Workers /\ DOMAIN reg' = Workers
      /\ \A v \in Workers \ {w} : pc'[v] = pc[v] /\ reg'[v] = reg[v]
  BY <1>1, <1>5, <1>6, <1>7 DEF Shape
<1>9. kregs'[t] = y /\ DOMAIN kregs' = Tasks /\ \A u \in Tasks \ {t} : kregs'[u] = kregs[u]
  BY <1>1, <1>5, <1>6 DEF Shape
<1>10. area'[t] = s /\ DOMAIN area' = Tasks /\ \A u \in Tasks \ {t} : area'[u] = area[u]
  BY <1>1 DEF Sets, Shape
<1>11. DOMAIN s = Words
  BY DEF SameBounds
<1>12. StepOf(w, t)
  BY <1>8, <1>9, <1>10 DEF StepOf, Beside
<1>13. Shape'
  <2>1. \A v \in Workers : DOMAIN reg'[v] = Regs /\ DOMAIN csr'[v] = {"uscratch", "uepc", "dasics"}
    BY <1>1, <1>7, <1>8 DEF Shape
  <2>2. \A u \in Tasks : DOMAIN area'[u] = Words
    BY <1>1, <1>10, <1>11 DEF Shape
  <2> QED
    BY <1>1, <1>8, <1>9, <1>10, <2>1, <2>2 DEF Shape, Beside
<1>14. \/ place'[t] = <<"out">> /\ (state'[t] # "RUNNABLE" \/ host = "security")
       \/ StoppedOn(t, w)'
  BY <1>7, <1>9, <1>10 DEF StoppedOn, Stopped
<1>15. Outside(w, t)'
  <2>1. cur'[w] = {t}
    BY DEF Inside
  <2>2. InLoop(w, reg'[w]) /\ reg'[w]["s1"] = Thread(t)
    BY <1>7, <1>8
  <2> QED
    BY <1>8, <1>14, <2>1, <2>2 DEF Outside
<1>16. WorkerOK(w)'
  BY <1>15 DEF WorkerOK
<1>17. TaskOK(t)'
  <2>1. Bounded(area[t], asked[t], t) /\ AskShape(asked[t])
    BY DEF CtxInv, TaskInv, TaskOK
  <2>2. Bounded(s, asked[t], t)
    BY <2>1, BoundsKept
  <2>3. place'[t] # <<"out">> => Queued(t, w)'
    BY <1>14 DEF Queued, Alone
  <2> QED
    BY <1>10, <2>1, <2>2, <2>3 DEF TaskOK
<1>18. cur'[w] \subseteq {t}
  BY DEF Inside
<1> QED
  BY <1>12, <1>13, <1>16, <1>17, <1>18, StepKeeps

-----------------------------------------------------------------------------
(* The steps *)

\* What the invariant says of the code of a context.
LEMMA WhereInside ==
  ASSUME NEW w, NEW t, Inside(w, t)
  PROVE  /\ pc[w] \in HandlerPCs =>
              /\ Based(t, area[t], w) /\ AtHome(w, t, reg[w]) /\ MyTls(w) = w
              /\ reg[w]["s0"] = Ctx(t) /\ reg[w]["s1"] = Ctx(t)
         /\ pc[w] = "handler" =>
              /\ reg[w]["a0"] = Ctx(t) /\ Owner(reg[w]["a0"]) = t
              /\ Saved(t, area[t], traps[t], last[t], 0)
              /\ area[t][OFFSET_UCAUSE] = <<"IRQ_U_TIME">> <=> last[t] = "irq"
         /\ tls[w].myctx = Ctx(t) /\ Owner(tls[w].myctx) = t /\ place[t] = <<"out">>
<1>1. Entered(pc[w], w, t, reg[w], csr[w], area[t], traps[t], last[t])
  BY DEF Inside
<1>2. CASE pc[w] \in HandlerPCs
  <2>1. /\ Based(t, area[t], w) /\ AtHome(w, t, reg[w])
        /\ reg[w]["s0"] = Ctx(t) /\ reg[w]["s1"] = Ctx(t)
    BY <1>1, <1>2 DEF Entered, HandlerPCs
  <2>2. MyTls(w) = w
    BY <2>1, Owners DEF AtHome, MyTls
  <2>3. pc[w] = "handler" =>
              /\ reg[w]["a0"] = Ctx(t)
              /\ Saved(t, area[t], traps[t], last[t], 0)
              /\ area[t][OFFSET_UCAUSE] = <<"IRQ_U_TIME">> <=> last[t] = "irq"
    BY <1>1 DEF Entered
  <2> QED
    BY <2>1, <2>2, <2>3, Owners DEF Inside
<1>3. CASE pc[w] \notin HandlerPCs
  BY <1>3, Owners DEF Inside, HandlerPCs
<1> QED
  BY <1>2, <1>3

\* A trap the handler sees as a call is not the timer's.
LEMMA IsCall ==
  ASSUME NEW w, NEW t, Inside(w, t), NEW cause \in {"DASICS", "ILLEGAL"}, NEW reasons, Handles(w, cause, reasons)
  PROVE  pc[w] = "handler" /\ last[t] = "call"
<1>1. pc[w] = "handler"
  BY DEF Handles
<1>2. /\ Owner(reg[w]["a0"]) = t /\ Saved(t, area[t], traps[t], last[t], 0)
      /\ area[t][OFFSET_UCAUSE] = <<"IRQ_U_TIME">> <=> last[t] = "irq"
  BY <1>1, WhereInside DEF HandlerPCs
<1>3. area[t][OFFSET_UCAUSE] = <<cause>>
  BY <1>2 DEF Handles
<1>4. area[t][OFFSET_UCAUSE] # <<"IRQ_U_TIME">>
  BY <1>3
<1> QED
  BY <1>1, <1>2, <1>4 DEF Saved

\* Nobody else moves.
LEMMA NobodyMoves ==
  ASSUME Shape, NEW t, UNCHANGED <<state, place>>
  PROVE  Beside(t)
BY DEF Shape, Beside

\* The first entry.
LEMMA EntryStep ==
  ASSUME CtxInv, NEW w \in Workers, lps_ctx_entry(w)
  PROVE  CtxInv'
<1>1. pc[w] = "lps_ctx_entry"
  BY DEF lps_ctx_entry
<1>2. PICK t \in Tasks : Inside(w, t) /\ Alone(w, t)
  BY <1>1, InContext
<1>3. Shape /\ t \in DOMAIN area /\ DOMAIN area[t] = Words
  BY DEF CtxInv, Shape
<1>4. Entered("lps_ctx_entry", w, t, reg[w], csr[w], area[t], traps[t], last[t])
  BY <1>1, <1>2 DEF Inside
<1>5. reg[w]["a0"] = Ctx(t)
  BY <1>4 DEF Entered
<1>6. Owner(reg[w]["a0"]) = t
  BY <1>5, Owners
<1>7. PICK s : s = EntryWords(area[t], reg[w])
  OBVIOUS
<1>8. /\ area' = [area EXCEPT ![t] = s] /\ RESTORE_ALL(w, Ctx(t), s)
      /\ UNCHANGED <<host, setups, tls, kregs, state, place, traps, cur, last, asked>>
  BY <1>5, <1>6, <1>7 DEF lps_ctx_entry
<1>9. Sets(area, area', t, s)
  BY <1>3, <1>8, SetsIt
<1>10. ASSUME NEW d, d.uscratch = Ctx(t), d.uepc = s[OFFSET_UEPC]
       PROVE  Entered("user", w, t, RestoreRegs(s), d, s, traps[t], last[t])
  BY <1>3, <1>4, <1>7, <1>10, EnterFirst
<1>11. SameBounds(area[t], s)
  BY <1>3, <1>7, EntryFacts
<1>12. Beside(t) /\ place'[t] = place[t]
  BY <1>3, <1>8, NobodyMoves
<1> QED
  BY <1>2, <1>8, <1>9, <1>10, <1>11, <1>12, Returns

\* The return after the timer.
LEMMA BackIrqStep ==
  ASSUME CtxInv, NEW w \in Workers, BackIrq(w)
  PROVE  CtxInv'
<1>1. pc[w] = "back_irq"
  BY DEF BackIrq
<1>2. PICK t \in Tasks : Inside(w, t) /\ Alone(w, t)
  BY <1>1, InContext
<1>3. Shape /\ t \in DOMAIN area /\ DOMAIN area[t] = Words
  BY DEF CtxInv, Shape
<1>4. Entered("back_irq", w, t, reg[w], csr[w], area[t], traps[t], last[t])
  BY <1>1, <1>2 DEF Inside
<1>5. reg[w]["s0"] = Ctx(t)
  BY <1>1, <1>2, WhereInside DEF HandlerPCs
<1>6. Owner(reg[w]["s0"]) = t
  BY <1>5, Owners
<1>7. PICK s : s = area[t]
  OBVIOUS
<1>8. /\ area' = area /\ RESTORE_ALL(w, Ctx(t), s)
      /\ UNCHANGED <<host, setups, tls, kregs, state, place, traps, cur, last, asked>>
  BY <1>5, <1>6, <1>7 DEF BackIrq
<1>9. Sets(area, area', t, s)
  BY <1>3, <1>7, <1>8, SetsIt
<1>10. ASSUME NEW d, d.uscratch = Ctx(t), d.uepc = s[OFFSET_UEPC]
       PROVE  Entered("user", w, t, RestoreRegs(s), d, s, traps[t], last[t])
  BY <1>4, <1>7, <1>10, EnterAgain
<1>11. SameBounds(area[t], s)
  BY <1>3, <1>7 DEF SameBounds
<1>12. Beside(t) /\ place'[t] = place[t]
  BY <1>3, <1>8, NobodyMoves
<1> QED
  BY <1>2, <1>8, <1>9, <1>10, <1>11, <1>12, Returns

\* The same words before and after the result is stored.
LEMMA SameTwice ==
  ASSUME NEW m, NEW s, NEW u, SameBounds(m, s), SameBounds(s, u)
  PROVE  SameBounds(m, u)
BY DEF SameBounds

\* The return after a system call whose pc has been moved: m is the context's
\* words at that point.
LEMMA AnswerStep ==
  ASSUME CtxInv, NEW w \in Workers, NEW t \in Tasks, Inside(w, t), Alone(w, t), NEW m,
         pc[w] \in HandlerPCs, last[t] = "call",
         SameBounds(area[t], m), Based(t, m, w), Saved(t, m, traps[t], "call", 4),
         ReturnA0(w, m), UNCHANGED <<host, setups, tls, kregs, traps, cur, last, asked>>,
         Beside(t), place'[t] = place[t]
  PROVE  CtxInv'
<1>1. t \in DOMAIN area
  BY DEF CtxInv, Shape
<1>2. reg[w]["s0"] = Ctx(t) /\ reg[w]["s1"] = Ctx(t)
  BY WhereInside
<1>3. Owner(reg[w]["s0"]) = t /\ Owner(reg[w]["s1"]) = t
  BY <1>2, Owners
<1>4. PICK s : s = [m EXCEPT ![OFFSET["a0"]] = Ret(t, traps[t])]
  OBVIOUS
<1>5. area' = [area EXCEPT ![t] = s] /\ RESTORE_ALL(w, Ctx(t), s)
  BY <1>2, <1>3, <1>4 DEF ReturnA0
<1>6. DOMAIN m = Words
  BY DEF SameBounds
<1>7. Answered(m, s, Ret(t, traps[t]))
  BY <1>4 DEF Answered
<1>8. SameBounds(m, s)
  BY <1>6, <1>7, ResultFacts
<1>9. SameBounds(area[t], s)
  BY <1>8, SameTwice
<1>10. ASSUME NEW d, d.uscratch = Ctx(t), d.uepc = s[OFFSET_UEPC]
       PROVE  Entered("user", w, t, RestoreRegs(s), d, s, traps[t], last[t])
  BY <1>6, <1>7, <1>10, EnterResult
<1>11. Sets(area, area', t, s)
  BY <1>1, <1>5, SetsIt
<1> QED
  BY <1>5, <1>9, <1>10, <1>11, Returns

\* A call that comes back at once, and may wake others.
LEMMA SysReturnStep ==
  ASSUME CtxInv, NEW w \in Workers, SysReturn(w)
  PROVE  CtxInv'
<1>1. Handles(w, "DASICS", {"EF"}) /\ pc[w] = "handler"
  BY DEF SysReturn, Handles
<1>2. PICK t \in Tasks : Inside(w, t) /\ Alone(w, t)
  BY <1>1, InContext
<1>3. last[t] = "call"
  BY <1>1, <1>2, IsCall
<1>4. /\ Based(t, area[t], w) /\ Owner(reg[w]["a0"]) = t /\ place[t] = <<"out">>
      /\ Saved(t, area[t], traps[t], "call", 0)
  BY <1>1, <1>2, <1>3, WhereInside DEF HandlerPCs
<1>5. DOMAIN area[t] = Words
  BY DEF CtxInv, Shape
<1>6. PICK m : m = NextInsn(area[t])
  OBVIOUS
<1>7. Based(t, m, w) /\ Saved(t, m, traps[t], "call", 4) /\ SameBounds(area[t], m)
  BY <1>4, <1>5, <1>6, Advanced
<1>8. ReturnA0(w, m) /\ UNCHANGED <<host, setups, tls, kregs, traps, cur, last, asked>>
  BY <1>4, <1>6 DEF SysReturn
<1>9. Beside(t) /\ place'[t] = place[t]
  <2>1. PICK woken \in {{}, {u \in Tasks : place[u] = <<"wait">>}} :
          /\ state' = [u \in Tasks |-> IF u \in woken THEN "RUNNABLE" ELSE state[u]]
          /\ place' = [u \in Tasks |-> IF u \in woken THEN <<"runq">> ELSE place[u]]
    BY DEF SysReturn
  <2>2. \A u \in Tasks : u \in woken => place[u] = <<"wait">>
    BY <2>1
  <2>3. t \notin woken
    BY <1>4, <2>2
  <2> QED
    BY <2>1, <2>2, <2>3 DEF Beside, Woken
<1>10. pc[w] \in HandlerPCs
  BY <1>1 DEF HandlerPCs
<1> QED
  BY <1>2, <1>3, <1>7, <1>8, <1>9, <1>10, AnswerStep

\* A fault that lps-security skips.
LEMMA FaultSkipStep ==
  ASSUME CtxInv, NEW w \in Workers, FaultSkip(w)
  PROVE  CtxInv'
<1>1. PICK cause \in {"DASICS", "ILLEGAL"}, reasons \in {{"LF"}, {"none"}} : Handles(w, cause, reasons)
  BY DEF FaultSkip
<1>2. pc[w] = "handler"
  BY <1>1 DEF Handles
<1>3. PICK t \in Tasks : Inside(w, t) /\ Alone(w, t)
  BY <1>2, InContext
<1>4. last[t] = "call"
  BY <1>1, <1>3, IsCall
<1>5. /\ Based(t, area[t], w) /\ Owner(reg[w]["a0"]) = t
      /\ Saved(t, area[t], traps[t], "call", 0)
  BY <1>2, <1>3, <1>4, WhereInside DEF HandlerPCs
<1>6. Shape /\ DOMAIN area[t] = Words
  BY DEF CtxInv, Shape
<1>7. PICK m : m = NextInsn(area[t])
  OBVIOUS
<1>8. Based(t, m, w) /\ Saved(t, m, traps[t], "call", 4) /\ SameBounds(area[t], m)
  BY <1>5, <1>6, <1>7, Advanced
<1>9. ReturnA0(w, m) /\ UNCHANGED <<host, setups, tls, kregs, state, place, traps, cur, last, asked>>
  BY <1>5, <1>7 DEF FaultSkip
<1>10. Beside(t) /\ place'[t] = place[t]
  BY <1>6, <1>9, NobodyMoves
<1>11. pc[w] \in HandlerPCs
  BY <1>2 DEF HandlerPCs
<1> QED
  BY <1>3, <1>4, <1>8, <1>9, <1>10, <1>11, AnswerStep

\* A call that comes back after the task was switched out.
LEMMA BackCallStep ==
  ASSUME CtxInv, NEW w \in Workers, BackCall(w)
  PROVE  CtxInv'
<1>1. pc[w] \in {"back_call", "back_block"}
  BY DEF BackCall
<1>2. PICK t \in Tasks : Inside(w, t) /\ Alone(w, t)
  BY <1>1, InContext
<1>3. Shape /\ DOMAIN area[t] = Words
  BY DEF CtxInv, Shape
<1>4. Entered(pc[w], w, t, reg[w], csr[w], area[t], traps[t], last[t])
  BY <1>2 DEF Inside
<1>5. Based(t, area[t], w) /\ last[t] = "call" /\ Saved(t, area[t], traps[t], "call", 4)
  BY <1>1, <1>4 DEF Entered, BackAt
<1>6. pc[w] \in HandlerPCs
  BY <1>1 DEF HandlerPCs
<1>7. Owner(reg[w]["s1"]) = t
  BY <1>2, <1>6, WhereInside, Owners
<1>8. ReturnA0(w, area[t]) /\ UNCHANGED <<host, setups, tls, kregs, state, place, traps, cur, last, asked>>
  BY <1>7 DEF BackCall
<1>9. SameBounds(area[t], area[t])
  BY <1>3 DEF SameBounds
<1>10. Beside(t) /\ place'[t] = place[t]
  BY <1>3, <1>8, NobodyMoves
<1> QED
  BY <1>2, <1>5, <1>6, <1>8, <1>9, <1>10, AnswerStep

\* The timer: the handler leaves.
LEMMA TimerStep ==
  ASSUME CtxInv, NEW w \in Workers, TimerIrq(w)
  PROVE  CtxInv'
<1>1. Handles(w, "IRQ_U_TIME", {"none"}) /\ pc[w] = "handler"
  BY DEF TimerIrq, Handles
<1>2. PICK t \in Tasks : Inside(w, t) /\ Alone(w, t)
  BY <1>1, InContext
<1>3. Shape /\ t \in DOMAIN area /\ DOMAIN area[t] = Words
  BY DEF CtxInv, Shape
<1>4. /\ Based(t, area[t], w) /\ AtHome(w, t, reg[w]) /\ reg[w]["s0"] = Ctx(t) /\ reg[w]["s1"] = Ctx(t)
      /\ reg[w]["a0"] = Ctx(t) /\ Owner(reg[w]["a0"]) = t /\ place[t] = <<"out">>
      /\ Saved(t, area[t], traps[t], last[t], 0)
      /\ area[t][OFFSET_UCAUSE] = <<"IRQ_U_TIME">> <=> last[t] = "irq"
  BY <1>1, <1>2, WhereInside DEF HandlerPCs
<1>5. last[t] = "irq"
  BY <1>1, <1>4 DEF Handles
<1>6. /\ lps_kswitch_from(w, Ctx(t), "back_irq") /\ area' = area
      /\ UNCHANGED <<host, setups, csr, tls, state, place, traps, cur, last, asked>>
  BY <1>4 DEF TimerIrq
<1>7. Sets(area, area', t, area[t]) /\ SameBounds(area[t], area[t])
  BY <1>3, <1>6, SetsIt DEF SameBounds
<1>8. Beside(t) /\ place'[t] \in {<<"out">>, <<"wait">>}
  BY <1>3, <1>4, <1>6, NobodyMoves
<1>9. BackAt("back_irq", last[t], 0)
  BY <1>5 DEF BackAt
<1> QED
  BY <1>2, <1>4, <1>6, <1>7, <1>8, <1>9, Departs

\* A fault that ends the run of lps-security.
LEMMA FaultLeaveStep ==
  ASSUME CtxInv, NEW w \in Workers, FaultLeave(w)
  PROVE  CtxInv'
<1>1. pc[w] = "handler" /\ host = "security"
  BY DEF FaultLeave, Handles
<1>2. PICK t \in Tasks : Inside(w, t) /\ Alone(w, t)
  BY <1>1, InContext
<1>3. Shape /\ t \in DOMAIN area /\ DOMAIN area[t] = Words
  BY DEF CtxInv, Shape
<1>4. /\ AtHome(w, t, reg[w]) /\ reg[w]["s0"] = Ctx(t) /\ reg[w]["s1"] = Ctx(t)
      /\ reg[w]["a0"] = Ctx(t) /\ place[t] = <<"out">>
  BY <1>1, <1>2, WhereInside DEF HandlerPCs
<1>5. /\ lps_kswitch_from(w, Ctx(t), "back_irq") /\ area' = area
      /\ UNCHANGED <<host, setups, csr, tls, state, place, traps, cur, last, asked>>
  BY <1>4 DEF FaultLeave
<1>6. Sets(area, area', t, area[t]) /\ SameBounds(area[t], area[t])
  BY <1>3, <1>5, SetsIt DEF SameBounds
<1>7. Beside(t) /\ place'[t] = <<"out">>
  BY <1>3, <1>4, <1>5, NobodyMoves
<1> QED
  BY <1>1, <1>2, <1>4, <1>5, <1>6, <1>7, Departs

\* One task changes its state and its place.
LEMMA OneMoves ==
  ASSUME Shape, NEW t \in Tasks, NEW x, NEW y,
         state' = [state EXCEPT ![t] = x], place' = [place EXCEPT ![t] = y]
  PROVE  Beside(t) /\ place'[t] = y /\ state'[t] = x
BY DEF Shape, Beside

\* YIELD, a pipe that blocks, or exit.
LEMMA SysLeaveStep ==
  ASSUME CtxInv, NEW w \in Workers, SysLeave(w)
  PROVE  CtxInv'
<1>1. Handles(w, "DASICS", {"EF"}) /\ pc[w] = "handler"
  BY DEF SysLeave, Handles
<1>2. PICK t \in Tasks : Inside(w, t) /\ Alone(w, t)
  BY <1>1, InContext
<1>3. Shape /\ t \in DOMAIN area /\ DOMAIN area[t] = Words
  BY DEF CtxInv, Shape
<1>4. /\ Based(t, area[t], w) /\ AtHome(w, t, reg[w]) /\ reg[w]["s0"] = Ctx(t) /\ reg[w]["s1"] = Ctx(t)
      /\ reg[w]["a0"] = Ctx(t) /\ Owner(reg[w]["a0"]) = t /\ place[t] = <<"out">>
      /\ Saved(t, area[t], traps[t], last[t], 0) /\ MyTls(w) = w
      /\ tls[w].myctx = Ctx(t) /\ Owner(tls[w].myctx) = t
  BY <1>1, <1>2, WhereInside DEF HandlerPCs
<1>5. last[t] = "call"
  BY <1>1, <1>2, IsCall
<1>6. PICK s : s = NextInsn(area[t])
  OBVIOUS
<1>7. Based(t, s, w) /\ Saved(t, s, traps[t], last[t], 4) /\ SameBounds(area[t], s)
  BY <1>3, <1>4, <1>6, Advanced
<1>8. area' = [area EXCEPT ![t] = s] /\ UNCHANGED <<host, setups, csr, tls, traps, cur, last, asked>>
  BY <1>4, <1>6 DEF SysLeave
<1>9. Sets(area, area', t, s)
  BY <1>3, <1>8, SetsIt
<1>10. BackAt("back_call", last[t], 4) /\ BackAt("back_block", last[t], 4)
  BY <1>5 DEF BackAt
<1>11. CASE lps_kswitch_from(w, Ctx(t), "back_call") /\ UNCHANGED <<state, place>>
  <2>1. Beside(t) /\ place'[t] \in {<<"out">>, <<"wait">>}
    BY <1>3, <1>4, <1>11, NobodyMoves
  <2> QED
    BY <1>2, <1>4, <1>7, <1>8, <1>9, <1>10, <1>11, <2>1, Departs
<1>12. CASE /\ lps_kswitch_from(w, Ctx(t), "back_block")
            /\ state' = [state EXCEPT ![t] = "BLOCKED"]
            /\ place' = [place EXCEPT ![t] = <<"wait">>]
  <2>1. Beside(t) /\ place'[t] \in {<<"out">>, <<"wait">>}
    BY <1>3, <1>12, OneMoves
  <2> QED
    BY <1>2, <1>4, <1>7, <1>8, <1>9, <1>10, <1>12, <2>1, Departs
<1>13. CASE /\ lps_kswitch_from(w, Ctx(t), "unreachable")
            /\ state' = [state EXCEPT ![t] = "EXITED"]
            /\ UNCHANGED place
  <2>1. Beside(t) /\ place'[t] = <<"out">> /\ state'[t] # "RUNNABLE"
    BY <1>3, <1>4, <1>13 DEF Shape, Beside
  <2> QED
    BY <1>2, <1>4, <1>7, <1>8, <1>9, <1>13, <2>1, Departs
<1> QED
  BY <1>4, <1>11, <1>12, <1>13 DEF SysLeave

\* The pipe is still not ready.
LEMMA BlockAgainStep ==
  ASSUME CtxInv, NEW w \in Workers, BlockAgain(w)
  PROVE  CtxInv'
<1>1. pc[w] = "back_block"
  BY DEF BlockAgain
<1>2. PICK t \in Tasks : Inside(w, t) /\ Alone(w, t)
  BY <1>1, InContext
<1>3. Shape /\ t \in DOMAIN area /\ DOMAIN area[t] = Words
  BY DEF CtxInv, Shape
<1>4. Entered("back_block", w, t, reg[w], csr[w], area[t], traps[t], last[t])
  BY <1>1, <1>2 DEF Inside
<1>5. last[t] = "call" /\ Saved(t, area[t], traps[t], last[t], 4)
  BY <1>4 DEF Entered, BackAt
<1>6. /\ Based(t, area[t], w) /\ AtHome(w, t, reg[w]) /\ reg[w]["s0"] = Ctx(t) /\ reg[w]["s1"] = Ctx(t)
      /\ MyTls(w) = w /\ tls[w].myctx = Ctx(t) /\ Owner(tls[w].myctx) = t
  BY <1>1, <1>2, WhereInside DEF HandlerPCs
<1>7. /\ lps_kswitch_from(w, Ctx(t), "back_block") /\ area' = area
      /\ state' = [state EXCEPT ![t] = "BLOCKED"] /\ place' = [place EXCEPT ![t] = <<"wait">>]
      /\ UNCHANGED <<host, setups, csr, tls, traps, cur, last, asked>>
  BY <1>6 DEF BlockAgain
<1>8. Sets(area, area', t, area[t]) /\ SameBounds(area[t], area[t])
  BY <1>3, <1>7, SetsIt DEF SameBounds
<1>9. Beside(t) /\ place'[t] \in {<<"out">>, <<"wait">>}
  BY <1>3, <1>7, OneMoves
<1>10. BackAt("back_block", last[t], 4)
  BY <1>5 DEF BackAt
<1> QED
  BY <1>2, <1>5, <1>6, <1>7, <1>8, <1>9, <1>10, Departs

\* assert(0).
LEMMA AbortStep ==
  ASSUME CtxInv, NEW w \in Workers, FaultAbort(w)
  PROVE  CtxInv'
<1>1. pc[w] = "handler"
  BY DEF FaultAbort, Handles
<1>2. PICK t \in Tasks : Inside(w, t) /\ Alone(w, t)
  BY <1>1, InContext
<1>3. Shape
  BY DEF CtxInv
<1>4. /\ pc' = [pc EXCEPT ![w] = "aborted"]
      /\ UNCHANGED <<host, setups, reg, csr, tls, area, kregs, state, place, traps, cur, last, asked>>
  BY DEF FaultAbort
<1>5. pc'[w] = "aborted" /\ DOMAIN pc' = Workers /\ \A v \in Workers \ {w} : pc'[v] = pc[v]
  BY <1>3, <1>4 DEF Shape
<1>6. StepOf(w, t)
  BY <1>4, <1>5 DEF StepOf
<1>7. Shape'
  BY <1>3, <1>4, <1>5 DEF Shape
<1>8. Inside(w, t)'
  BY <1>2, <1>4, <1>5 DEF Inside, Entered
<1>9. WorkerOK(w)'
  BY <1>8 DEF WorkerOK
<1>10. TaskOK(t)'
  <2>1. TaskOK(t)
    BY DEF CtxInv, TaskInv
  <2> QED
    BY <1>4, <2>1 DEF TaskOK, Queued, StoppedOn
<1>11. cur'[w] \subseteq {t}
  BY <1>2, <1>4 DEF Inside
<1> QED
  BY <1>2, <1>6, <1>7, <1>9, <1>10, <1>11, StepKeeps

\* The sandbox traps: dasics_ufault_entry.
LEMMA TrapStep ==
  ASSUME CtxInv, NEW w \in Workers, dasics_ufault_entry(w)
  PROVE  CtxInv'
<1>1. pc[w] = "user"
  BY DEF dasics_ufault_entry
<1>2. PICK t \in Tasks : Inside(w, t) /\ Alone(w, t)
  BY <1>1, InContext
<1>3. Shape /\ t \in DOMAIN area /\ DOMAIN area[t] = Words /\ traps[t] \in Nat
  BY DEF CtxInv, Shape
<1>4. Entered("user", w, t, reg[w], csr[w], area[t], traps[t], last[t])
  BY <1>1, <1>2 DEF Inside
<1>5. csr[w].uscratch = Ctx(t) /\ \E k : csr[w].uepc = Pc(t, traps[t], k)
  BY <1>4 DEF Entered
<1>6. Owner(csr[w].uepc) = t /\ Owner(csr[w].uscratch) = t
  BY <1>5, Owners
<1>7. PICK x : x = [q \in Regs |-> User(t, q, traps[t] + 1)]
  OBVIOUS
<1>8. PICK c \in Causes :
        /\ area' = [area EXCEPT ![t] =
                      SaveWords(area[t], x, [uscratch |-> x["s0"], uepc |-> Pc(t, traps[t] + 1, 0),
                                             ucause |-> <<c[1]>>, dfreason |-> <<c[2]>>])]
        /\ last' = [last EXCEPT ![t] = IF c[1] = "IRQ_U_TIME" THEN "irq" ELSE "call"]
  BY <1>6, <1>7, ZenonT(40) DEF dasics_ufault_entry
<1>9. PICK y : y = [SaveRegs(area[t], x, Ctx(t)) EXCEPT !["a0"] = Ctx(t), !["s1"] = Ctx(t)]
  OBVIOUS
<1>10. /\ reg' = [reg EXCEPT ![w] = y] /\ pc' = [pc EXCEPT ![w] = "handler"]
       /\ traps' = [traps EXCEPT ![t] = traps[t] + 1]
       /\ UNCHANGED <<host, setups, tls, kregs, state, place, cur, asked>>
  BY <1>5, <1>6, <1>7, <1>9 DEF dasics_ufault_entry
<1>11. csr' = [csr EXCEPT ![w].uscratch = x["s0"], ![w].uepc = Pc(t, traps[t] + 1, 0)]
  BY <1>6, <1>7 DEF dasics_ufault_entry
<1>12. PICK e : e = [uscratch |-> x["s0"], uepc |-> Pc(t, traps[t] + 1, 0),
                     ucause |-> <<c[1]>>, dfreason |-> <<c[2]>>]
  OBVIOUS
<1>13. PICK g : g = c[1]
  OBVIOUS
<1>14. e.uscratch = x["s0"] /\ e.uepc = Pc(t, traps[t] + 1, 0) /\ e.ucause = <<g>>
  BY <1>12, <1>13
<1>15. PICK s : s = SaveWords(area[t], x, e)
  OBVIOUS
<1>16. PICK l : l = IF g = "IRQ_U_TIME" THEN "irq" ELSE "call"
  OBVIOUS
<1>17. area' = [area EXCEPT ![t] = s] /\ last' = [last EXCEPT ![t] = l]
  BY <1>8, <1>12, <1>13, <1>15, <1>16
<1>18. /\ Entered("handler", w, t, y, csr'[w], s, traps[t] + 1, l)
       /\ SameBounds(area[t], s) /\ DOMAIN y = Regs
  <2>1. Trapped(t, area[t], traps[t], g, s, y)
    BY <1>7, <1>9, <1>14, <1>15 DEF Trapped
  <2> QED
    BY <1>3, <1>4, <1>16, <2>1, EnterHandler
<1>19. /\ pc'[w] = "handler" /\ reg'[w] = y /\ DOMAIN pc' = Workers /\ DOMAIN reg' = Workers
       /\ \A v \in Workers \ {w} : pc'[v] = pc[v] /\ reg'[v] = reg[v]
  BY <1>3, <1>10 DEF Shape
<1>20. /\ csr'[w].dasics = csr[w].dasics
       /\ DOMAIN csr' = Workers /\ DOMAIN csr'[w] = {"uscratch", "uepc", "dasics"}
       /\ \A v \in Workers \ {w} : csr'[v] = csr[v]
  <2>1. DOMAIN csr = Workers /\ DOMAIN csr[w] = {"uscratch", "uepc", "dasics"}
    BY <1>3 DEF Shape
  <2> QED
    BY <1>11, <2>1
<1>21. /\ area'[t] = s /\ last'[t] = l /\ DOMAIN area' = Tasks /\ DOMAIN last' = Tasks
       /\ \A u \in Tasks \ {t} : area'[u] = area[u] /\ last'[u] = last[u]
  BY <1>3, <1>17 DEF Shape
<1>22. traps' \in [Tasks -> Nat] /\ traps'[t] = traps[t] + 1 /\ \A u \in Tasks \ {t} : traps'[u] = traps[u]
  BY <1>3, <1>10 DEF Shape
<1>23. StepOf(w, t)
  BY <1>10, <1>19, <1>20, <1>21, <1>22 DEF StepOf
<1>24. Shape'
  <2>1. ASSUME NEW v \in Workers PROVE DOMAIN reg'[v] = Regs /\ DOMAIN csr'[v] = {"uscratch", "uepc", "dasics"}
    <3>1. CASE v = w
      BY <1>18, <1>19, <1>20, <3>1
    <3>2. CASE v # w
      BY <1>3, <1>19, <1>20, <3>2 DEF Shape
    <3> QED
      BY <3>1, <3>2
  <2>2. \A u \in Tasks : DOMAIN area'[u] = Words
    BY <1>3, <1>18, <1>21 DEF Shape, SameBounds
  <2> QED
    BY <1>3, <1>10, <1>19, <1>20, <1>21, <1>22, <2>1, <2>2 DEF Shape
<1>25. Inside(w, t)'
  <2>1. csr'[w].dasics = lps_load_dasics(area'[t])
    <3>1. csr[w].dasics = lps_load_dasics(area[t])
      BY <1>2 DEF Inside
    <3>2. lps_load_dasics(s) = lps_load_dasics(area[t])
      BY <1>18, BoundsKept
    <3> QED
      BY <1>20, <1>21, <3>1, <3>2
  <2>2. Entered(pc'[w], w, t, reg'[w], csr'[w], area'[t], traps'[t], last'[t])
    BY <1>18, <1>19, <1>21, <1>22
  <2> QED
    BY <1>2, <1>10, <2>1, <2>2 DEF Inside
<1>26. WorkerOK(w)'
  BY <1>25 DEF WorkerOK
<1>27. TaskOK(t)'
  <2>1. Bounded(area[t], asked[t], t) /\ AskShape(asked[t])
    BY DEF CtxInv, TaskInv, TaskOK
  <2>2. Bounded(s, asked[t], t)
    BY <1>18, <2>1, BoundsKept
  <2>3. place'[t] = <<"out">>
    BY <1>2, <1>10 DEF Inside
  <2> QED
    BY <1>10, <1>21, <2>1, <2>2, <2>3 DEF TaskOK
<1>28. cur'[w] \subseteq {t}
  BY <1>2, <1>10 DEF Inside
<1> QED
  BY <1>2, <1>23, <1>24, <1>26, <1>27, <1>28, StepKeeps

\* A loop that has no task has its own thread-local storage.
LEMMA InTheLoop ==
  ASSUME CtxInv, NEW w \in Workers, pc[w] \in {"loop", "end"}
  PROVE  cur[w] = {} /\ InLoop(w, reg[w]) /\ MyTls(w) = w
<1>1. WorkerOK(w)
  BY DEF CtxInv, WorkerInv
<1>2. ASSUME NEW t \in Tasks PROVE ~Inside(w, t) /\ ~Outside(w, t)
  BY DEF Inside, Outside, Entered
<1>3. cur[w] = {} /\ InLoop(w, reg[w])
  BY <1>1, <1>2 DEF WorkerOK
<1> QED
  BY <1>3, Owners DEF InLoop, MyTls

\* The task a loop may take has stopped, and on this worker if it has run.
LEMMA MayTakeFacts ==
  ASSUME NoMigration, CtxInv, NEW w \in Workers, NEW t \in Tasks, pc[w] = "loop", setups = Running, MayTake(w, t)
  PROVE  StoppedOn(t, w) /\ Alone(w, t)
<1>1. host \in {"rr", "mc", "security"} /\ host \in Hosts
  BY CtxAssumption DEF CtxInv, Shape
<1>2. cur[w] = {} /\ MyTls(w) = w
  BY InTheLoop
<1>3. TaskOK(t)
  BY DEF CtxInv, TaskInv
<1>4. CASE host # "mc"
  <2>1. w = RRWorker /\ place[t] \in {<<"runq">>, <<"main">>}
    BY <1>1, <1>4 DEF MayTake
  <2>2. place[t] # <<"out">>
    BY <2>1
  <2>3. StoppedOn(t, w)
    BY <1>3, <1>4, <2>1, <2>2 DEF TaskOK, Queued
  <2>4. ASSUME NEW v \in Workers \ {w} PROVE t \notin cur[v]
    <3>1. pc[v] = "loop"
      BY <1>4, <2>1 DEF CtxInv, WorkerInv
    <3> QED
      BY <3>1, InTheLoop
  <2> QED
    BY <1>2, <2>1, <2>3, <2>4 DEF Alone
<1>5. CASE host = "mc"
  <2>1. place[t][1] = "local" /\ (place[t] = <<"local", w>> \/ Steals \/ traps[t] = 0)
    BY <1>2, <1>5 DEF MayTake, Mine, In
  <2>2. ~Steals
    BY <1>1, <1>5 DEF NoMigration
  <2>3. place[t] \notin {<<"out">>, <<"wait">>, <<"runq">>}
    BY <2>1
  <2>4. PICK v \in Workers : Queued(t, v)
    BY <1>3, <2>3 DEF TaskOK
  <2>5. StoppedOn(t, v) /\ (traps[t] = 0 \/ place[t] = <<"local", v>>)
    BY <2>1, <2>4 DEF Queued
  <2>6. StoppedOn(t, w)
    <3>1. CASE traps[t] = 0
      BY <2>5, <3>1 DEF StoppedOn, Stopped, Saved
    <3>2. CASE traps[t] # 0
      <4>1. place[t] = <<"local", v>> /\ place[t] = <<"local", w>>
        BY <2>1, <2>2, <2>5, <3>2
      <4>2. v = w
        BY <4>1
      <4> QED
        BY <2>5, <4>2
    <3> QED
      BY <3>1, <3>2
  <2>7. ASSUME NEW u \in Workers \ {w} PROVE t \notin cur[u]
    <3>1. WorkerOK(u)
      BY DEF CtxInv, WorkerInv
    <3> QED
      BY <2>3, <3>1 DEF WorkerOK, Inside, Outside
  <2> QED
    BY <1>2, <1>5, <2>6, <2>7 DEF Alone
<1> QED
  BY <1>4, <1>5

\* A loop runs a task.
LEMMA TakeStep ==
  ASSUME NoMigration, CtxInv, NEW w \in Workers, NEW t \in Tasks, Take(w, t)
  PROVE  CtxInv'
<1>1. pc[w] = "loop" /\ setups = Running /\ MayTake(w, t)
  BY DEF Take
<1>2. StoppedOn(t, w) /\ Alone(w, t)
  BY <1>1, MayTakeFacts
<1>3. cur[w] = {} /\ InLoop(w, reg[w]) /\ MyTls(w) = w
  BY <1>1, InTheLoop
<1>4. Shape /\ DOMAIN reg[w] = Regs
  BY DEF CtxInv, Shape
<1>5. PICK x : x = [reg[w] EXCEPT !["a0"] = Ctx(t), !["s1"] = Thread(t), !["ra"] = Code("after_run")]
  OBVIOUS
<1>6. /\ tls' = [tls EXCEPT ![w] = [myctx |-> Ctx(t), kctx |-> KSave(x)]]
      /\ csr' = [csr EXCEPT ![w].dasics = lps_load_dasics(area[t])]
      /\ reg' = [reg EXCEPT ![w] = KLoad(x, kregs[t])]
      /\ pc' = [pc EXCEPT ![w] = Target(kregs[t]["ra"])]
  BY <1>3, <1>5 DEF Take, lps_thread_run
<1>7. /\ place' = [place EXCEPT ![t] = <<"out">>] /\ cur' = [cur EXCEPT ![w] = {t}]
      /\ UNCHANGED <<host, setups, area, kregs, state, traps, last, asked>>
  BY DEF Take
<1>8. /\ pc'[w] = Target(kregs[t]["ra"]) /\ reg'[w] = KLoad(x, kregs[t]) /\ cur'[w] = {t}
      /\ tls'[w] = [myctx |-> Ctx(t), kctx |-> KSave(x)]
      /\ DOMAIN pc' = Workers /\ DOMAIN reg' = Workers /\ DOMAIN cur' = Workers /\ DOMAIN tls' = Workers
      /\ \A v \in Workers \ {w} : /\ pc'[v] = pc[v] /\ reg'[v] = reg[v]
                                  /\ cur'[v] = cur[v] /\ tls'[v] = tls[v]
  BY <1>4, <1>6, <1>7 DEF Shape
<1>9. /\ csr'[w].dasics = lps_load_dasics(area[t])
      /\ DOMAIN csr' = Workers /\ DOMAIN csr'[w] = {"uscratch", "uepc", "dasics"}
      /\ \A v \in Workers \ {w} : csr'[v] = csr[v]
  <2>1. DOMAIN csr = Workers /\ DOMAIN csr[w] = {"uscratch", "uepc", "dasics"}
    BY <1>4 DEF Shape
  <2> QED
    BY <1>6, <2>1
<1>10. place'[t] = <<"out">> /\ DOMAIN place' = Tasks /\ \A u \in Tasks \ {t} : place'[u] = place[u]
  BY <1>4, <1>7 DEF Shape
<1>11. /\ CallerKept(w, t, KSave(x)) /\ DOMAIN KLoad(x, kregs[t]) = Regs
       /\ Entered(Target(kregs[t]["ra"]), w, t, KLoad(x, kregs[t]), csr'[w], area[t], traps[t], last[t])
  BY <1>2, <1>3, <1>4, <1>5, Runs DEF StoppedOn
<1>12. StepOf(w, t)
  BY <1>7, <1>8, <1>9, <1>10 DEF StepOf
<1>13. Shape'
  <2>1. ASSUME NEW v \in Workers PROVE DOMAIN reg'[v] = Regs /\ DOMAIN csr'[v] = {"uscratch", "uepc", "dasics"}
    <3>1. CASE v = w
      BY <1>8, <1>9, <1>11, <3>1
    <3>2. CASE v # w
      BY <1>4, <1>8, <1>9, <3>2 DEF Shape
    <3> QED
      BY <3>1, <3>2
  <2> QED
    BY <1>4, <1>7, <1>8, <1>9, <1>10, <2>1 DEF Shape
<1>14. Inside(w, t)'
  BY <1>7, <1>8, <1>9, <1>10, <1>11 DEF Inside
<1>15. WorkerOK(w)'
  BY <1>14 DEF WorkerOK
<1>16. TaskOK(t)'
  <2>1. TaskOK(t)
    BY DEF CtxInv, TaskInv
  <2> QED
    BY <1>7, <1>10, <2>1 DEF TaskOK
<1>17. cur'[w] \subseteq {t}
  BY <1>8
<1> QED
  BY <1>2, <1>12, <1>13, <1>15, <1>16, <1>17, StepKeeps

\* lps_thread_run has returned.
LEMMA AfterRunStep ==
  ASSUME CtxInv, NEW w \in Workers, AfterRun(w)
  PROVE  CtxInv'
<1>1. pc[w] = "after_run"
  BY DEF AfterRun
<1>2. WorkerOK(w)
  BY DEF CtxInv, WorkerInv
<1>3. ASSUME NEW t \in Tasks PROVE ~Inside(w, t)
  BY <1>1 DEF Inside, Entered
<1>4. PICK t \in Tasks : Outside(w, t)
  BY <1>1, <1>2, <1>3 DEF WorkerOK
<1>5. /\ cur[w] = {t} /\ InLoop(w, reg[w]) /\ reg[w]["s1"] = Thread(t)
      /\ place[t] \in {<<"out">>, <<"wait">>, <<"runq">>}
      /\ (state[t] = "RUNNABLE" /\ host # "security") \/ place[t] # <<"out">> => StoppedOn(t, w)
  BY <1>4 DEF Outside
<1>6. Alone(w, t)
  <2>1. setups = Running /\ (host # "mc" => w = RRWorker)
    BY <1>1 DEF CtxInv, WorkerInv
  <2>2. \A v \in Workers \ {w} : t \notin cur[v]
    BY <1>5 DEF CtxInv, WorkerInv
  <2> QED
    BY <1>5, <2>1, <2>2 DEF Alone
<1>7. Owner(reg[w]["s1"]) = t /\ MyTls(w) = w
  BY <1>5, Owners DEF InLoop, MyTls
<1>8. Shape /\ host \in {"rr", "mc", "security"}
  BY CtxAssumption DEF CtxInv, Shape
<1>9. PICK next : next = IF state[t] # "RUNNABLE" THEN place[t]
                         ELSE CASE host = "rr" -> <<"runq">>
                                [] host = "mc" -> <<"local", w>>
                                [] OTHER -> place[t]
  OBVIOUS
<1>10. /\ place' = [place EXCEPT ![t] = next] /\ cur' = [cur EXCEPT ![w] = {}]
       /\ pc' = [pc EXCEPT ![w] = IF host = "security" THEN "end" ELSE "loop"]
       /\ UNCHANGED <<host, setups, reg, csr, tls, area, kregs, state, traps, last, asked>>
  BY <1>7, <1>9 DEF AfterRun
<1>11. /\ pc'[w] \in {"loop", "end"} /\ cur'[w] = {} /\ DOMAIN pc' = Workers /\ DOMAIN cur' = Workers
       /\ \A v \in Workers \ {w} : pc'[v] = pc[v] /\ cur'[v] = cur[v]
  BY <1>8, <1>10 DEF Shape
<1>12. place'[t] = next /\ DOMAIN place' = Tasks /\ \A u \in Tasks \ {t} : place'[u] = place[u]
  BY <1>8, <1>10 DEF Shape
<1>13. StepOf(w, t)
  BY <1>10, <1>11, <1>12 DEF StepOf
<1>14. Shape'
  BY <1>8, <1>10, <1>11, <1>12 DEF Shape
<1>15. WorkerOK(w)'
  BY <1>5, <1>10, <1>11 DEF WorkerOK
<1>16. TaskOK(t)'
  <2>1. TaskOK(t)
    BY DEF CtxInv, TaskInv
  <2>2. /\ next \in {<<"out">>, <<"wait">>, <<"runq">>, <<"local", w>>}
        /\ next # <<"out">> => StoppedOn(t, w)
    <3>1. CASE state[t] # "RUNNABLE" \/ host = "security"
      <4>1. next = place[t]
        BY <1>9, <3>1
      <4> QED
        BY <1>5, <4>1
    <3>2. CASE state[t] = "RUNNABLE" /\ host # "security"
      <4>1. next = <<"runq">> \/ next = <<"local", w>>
        BY <1>8, <1>9, <3>2
      <4> QED
        BY <1>5, <3>2, <4>1
    <3> QED
      BY <3>1, <3>2
  <2>3. next # <<"out">> => StoppedOn(t, w)'
    BY <1>10, <2>2 DEF StoppedOn
  <2>4. next[1] # "local" \/ next = <<"local", w>>
    BY <2>2
  <2>5. next # <<"out">> => Queued(t, w)'
    BY <1>6, <1>10, <1>12, <2>3, <2>4 DEF Queued, Alone
  <2>6. next # <<"grunq">>
    BY <2>2
  <2> QED
    BY <1>10, <1>12, <2>1, <2>5, <2>6 DEF TaskOK
<1>17. cur'[w] \subseteq {t}
  BY <1>11
<1> QED
  BY <1>6, <1>13, <1>14, <1>15, <1>16, <1>17, StepKeeps

\* A worker takes its share of the global queue, where no task has run.
LEMMA ShareStep ==
  ASSUME CtxInv, NEW w \in Workers, Share(w)
  PROVE  CtxInv'
<1>1. pc[w] = "loop" /\ MyTls(w) = w
  BY InTheLoop DEF Share
<1>2. UNCHANGED <<host, setups, pc, reg, csr, tls, area, kregs, state, traps, cur, last, asked>>
  BY DEF Share
<1>3. PICK S \in SUBSET In(<<"grunq">>) :
        place' = [t \in Tasks |-> IF t \in S THEN <<"local", w>> ELSE place[t]]
  BY <1>1 DEF Share
<1>4. ASSUME NEW t \in Tasks
      PROVE  \/ place'[t] = place[t]
             \/ place[t] = <<"grunq">> /\ place'[t] = <<"local", w>>
  BY <1>3 DEF In
<1>5. Shape'
  BY <1>2, <1>3 DEF CtxInv, Shape
<1>6. ASSUME NEW t \in Tasks, place[t] \in {<<"out">>, <<"wait">>, <<"runq">>} PROVE place'[t] = place[t]
  BY <1>4, <1>6
<1>7. ASSUME NEW v \in Workers PROVE WorkerOK(v)'
  <2>1. WorkerOK(v)
    BY DEF CtxInv, WorkerInv
  <2>2. CASE pc[v] \in {"loop", "end"} /\ cur[v] = {} /\ InLoop(v, reg[v])
    BY <1>2, <2>2 DEF WorkerOK
  <2>3. ASSUME NEW t \in Tasks, Inside(v, t) PROVE Inside(v, t)'
    <3>1. place'[t] = place[t]
      BY <1>6, <2>3 DEF Inside
    <3> QED
      BY <1>2, <2>3, <3>1 DEF Inside
  <2>4. ASSUME NEW t \in Tasks, Outside(v, t) PROVE Outside(v, t)'
    <3>1. place'[t] = place[t]
      BY <1>6, <2>4 DEF Outside
    <3> QED
      BY <1>2, <2>4, <3>1 DEF Outside, StoppedOn
  <2> QED
    BY <2>1, <2>2, <2>3, <2>4 DEF WorkerOK
<1>8. WorkerInv'
  BY <1>2, <1>7 DEF CtxInv, WorkerInv
<1>9. ASSUME NEW t \in Tasks PROVE TaskOK(t)'
  <2>1. TaskOK(t)
    BY DEF CtxInv, TaskInv
  <2>2. CASE place'[t] = place[t]
    BY <1>2, <2>1, <2>2 DEF TaskOK, Queued, StoppedOn
  <2>3. CASE place[t] = <<"grunq">> /\ place'[t] = <<"local", w>>
    <3>1. traps[t] = 0
      BY <2>1, <2>3 DEF TaskOK
    <3>2. PICK v \in Workers : Queued(t, v)
      BY <2>1, <2>3 DEF TaskOK
    <3>3. Queued(t, v)'
      BY <1>2, <3>1, <3>2 DEF Queued, StoppedOn
    <3> QED
      BY <1>2, <2>1, <2>3, <3>3 DEF TaskOK
  <2> QED
    BY <1>4, <2>2, <2>3
<1> QED
  BY <1>5, <1>8, <1>9 DEF CtxInv, TaskInv

\* The host starts its loops.
LEMMA StartStep ==
  ASSUME CtxInv, Start
  PROVE  CtxInv'
<1>1. /\ setups' = Running
      /\ UNCHANGED <<host, pc, reg, csr, tls, area, kregs, state, place, traps, cur, last, asked>>
  BY DEF Start
<1>2. Shape'
  BY <1>1, CtxAssumption DEF CtxInv, Shape, Running
<1>3. ASSUME NEW w \in Workers, WorkerOK(w) PROVE WorkerOK(w)'
  BY <1>1, <1>3 DEF WorkerOK, Inside, Outside, StoppedOn
<1>4. WorkerInv'
  BY <1>1, <1>3 DEF CtxInv, WorkerInv, Running
<1>5. ASSUME NEW t \in Tasks, TaskOK(t) PROVE TaskOK(t)'
  BY <1>1, <1>5 DEF TaskOK, Queued, StoppedOn
<1> QED
  BY <1>2, <1>4, <1>5 DEF CtxInv, TaskInv

\* What a stopped task needs lies below the bounds.
LEMMA StoppedKept ==
  ASSUME NEW t, NEW m, NEW s, SameBelow(m, s), NEW kr, NEW n, NEW l, NEW w, Stopped(t, m, kr, n, l, w)
  PROVE  Stopped(t, s, kr, n, l, w)
<1>1. {0, 8, 16, 544} \subseteq Words
  BY TrapWords DEF OFFSET_KSP, OFFSET_KGP, OFFSET_KTP, OFFSET_UEPC
<1>2. \A q \in Regs : s[OFFSET[q]] = m[OFFSET[q]]
  BY RegWords DEF SameBelow
<1>3. /\ s[OFFSET_UEPC] = m[OFFSET_UEPC] /\ s[OFFSET_KSP] = m[OFFSET_KSP]
      /\ s[OFFSET_KGP] = m[OFFSET_KGP] /\ s[OFFSET_KTP] = m[OFFSET_KTP]
  BY <1>1 DEF SameBelow, OFFSET_KSP, OFFSET_KGP, OFFSET_KTP, OFFSET_UEPC
<1>4. Unused(t, m, n, l) => Unused(t, s, n, l)
  BY <1>2, <1>3 DEF Unused
<1>5. Based(t, m, w) => Based(t, s, w)
  BY <1>3 DEF Based
<1>6. \A k : Saved(t, m, n, l, k) => Saved(t, s, n, l, k)
  BY <1>2, <1>3 DEF Saved
<1> QED
  BY <1>4, <1>5, <1>6 DEF Stopped

\* The host calls bound.c.
LEMMA SetUpStep ==
  ASSUME CtxInv, NEW t \in Tasks, SetUp(t)
  PROVE  CtxInv'
<1>1. PICK s, b : BoundCall(t, s, b) /\ Asks(area[t], s, asked[t], b, t)
  BY CtxAssumption, ZenonT(40) DEF SetUp, Asks
<1>2. /\ setups < MaxSets /\ setups' = setups + 1
      /\ area' = [area EXCEPT ![t] = s] /\ asked' = [asked EXCEPT ![t] = b]
      /\ UNCHANGED <<host, pc, reg, csr, tls, kregs, state, place, traps, cur, last>>
  BY <1>1 DEF BoundCall
<1>3. Shape /\ DOMAIN area[t] = Words /\ TaskOK(t)
  BY DEF CtxInv, Shape, TaskInv
<1>4. /\ area'[t] = s /\ asked'[t] = b /\ DOMAIN area' = Tasks /\ DOMAIN asked' = Tasks
      /\ \A u \in Tasks \ {t} : area'[u] = area[u] /\ asked'[u] = asked[u]
  BY <1>2, <1>3 DEF Shape
<1>5. Bounded(s, b, t) /\ AskShape(b) /\ SameBelow(area[t], s)
  <2>1. Bounded(area[t], asked[t], t) /\ AskShape(asked[t])
    BY <1>3 DEF TaskOK
  <2> QED
    BY <1>1, <1>3, <2>1, AskedKept
<1>6. setups \in Nat /\ setups # Running /\ setups' # Running /\ setups' \in 0 .. Running
  BY <1>2, <1>3, CtxAssumption DEF Shape, Running
<1>7. \A w \in Workers : pc[w] = "loop"
  BY <1>6 DEF CtxInv, WorkerInv
<1>8. ASSUME NEW w \in Workers PROVE WorkerOK(w)'
  <2>1. pc[w] = "loop" /\ cur[w] = {} /\ InLoop(w, reg[w])
    BY <1>7, InTheLoop
  <2> QED
    BY <1>2, <2>1 DEF WorkerOK
<1>9. WorkerInv'
  BY <1>2, <1>7, <1>8 DEF CtxInv, WorkerInv
<1>10. Shape'
  <2>1. \A u \in Tasks : DOMAIN area'[u] = Words
    BY <1>3, <1>4, <1>5 DEF Shape, SameBelow
  <2> QED
    BY <1>2, <1>3, <1>4, <1>6, <2>1 DEF Shape
<1>11. ASSUME NEW u \in Tasks, NEW v, StoppedOn(u, v) PROVE StoppedOn(u, v)'
  <2>1. CASE u = t
    <3>1. Stopped(t, s, kregs[t], traps[t], last[t], v)
      BY <1>5, <1>11, <2>1, StoppedKept DEF StoppedOn
    <3> QED
      BY <1>2, <1>4, <2>1, <3>1 DEF StoppedOn
  <2>2. CASE u # t
    BY <1>2, <1>4, <1>11, <2>2 DEF StoppedOn
  <2> QED
    BY <2>1, <2>2
<1>12. ASSUME NEW u \in Tasks PROVE TaskOK(u)'
  <2>1. TaskOK(u)
    BY DEF CtxInv, TaskInv
  <2>2. Bounded(area'[u], asked'[u], u) /\ AskShape(asked'[u])
    BY <1>4, <1>5, <2>1 DEF TaskOK
  <2>3. ASSUME NEW v \in Workers, Queued(u, v) PROVE Queued(u, v)'
    BY <1>2, <1>11, <2>3 DEF Queued
  <2> QED
    BY <1>2, <2>1, <2>2, <2>3 DEF TaskOK
<1> QED
  BY <1>9, <1>10, <1>12 DEF CtxInv, TaskInv

\* Every step keeps the invariant.
LEMMA NextCtx ==
  ASSUME NoMigration, CtxInv, [Next]_vars
  PROVE  CtxInv'
<1>1. CASE UNCHANGED vars
  <2>1. UNCHANGED <<host, setups, pc, reg, csr, tls, area, kregs, state, place, traps, cur, last, asked>>
    BY <1>1 DEF vars
  <2>2. Shape'
    BY <2>1 DEF CtxInv, Shape
  <2>3. ASSUME NEW w \in Workers, WorkerOK(w) PROVE WorkerOK(w)'
    BY <2>1, <2>3 DEF WorkerOK, Inside, Outside, StoppedOn
  <2>4. WorkerInv'
    BY <2>1, <2>3 DEF CtxInv, WorkerInv
  <2>5. ASSUME NEW t \in Tasks, TaskOK(t) PROVE TaskOK(t)'
    BY <2>1, <2>5 DEF TaskOK, Queued, StoppedOn
  <2> QED
    BY <2>2, <2>4, <2>5 DEF CtxInv, TaskInv
<1>2. CASE Start
  BY <1>2, StartStep
<1>3. CASE \E t \in Tasks : SetUp(t)
  BY <1>3, SetUpStep
<1>4. ASSUME NEW w \in Workers,
             \/ \E t \in Tasks : Take(w, t)
             \/ Share(w) \/ AfterRun(w) \/ lps_ctx_entry(w) \/ dasics_ufault_entry(w)
             \/ arch_syshandle(w) \/ security_syshandle(w)
      PROVE  CtxInv'
  BY <1>4, TakeStep, ShareStep, AfterRunStep, EntryStep, TrapStep, TimerStep, SysReturnStep,
     SysLeaveStep, AbortStep, BackIrqStep, BackCallStep, BlockAgainStep, FaultSkipStep, FaultLeaveStep
     DEF arch_syshandle, security_syshandle
<1> QED
  BY <1>1, <1>2, <1>3, <1>4 DEF Next

-----------------------------------------------------------------------------
(* The theorems *)

\* The invariant is inductive as long as no task that has run changes workers.
THEOREM CtxHold ==
  ASSUME NoMigration
  PROVE  Spec => []CtxInv
<1>1. CtxInv /\ [Next]_vars => CtxInv'
  BY NextCtx
<1> QED
  BY <1>1, InitCtx, PTL DEF Spec

\* A sandbox that runs again finds every register and its pc as it left them:
\* SAVE_ALL, RESTORE_ALL, kswitch and lps_ctx_entry, for any number of tasks,
\* workers and traps.
THEOREM SandboxResumesHolds ==
  ASSUME NoMigration
  PROVE  Spec => []SandboxResumes
<1>1. CtxInv => SandboxResumes
  <2> SUFFICES ASSUME CtxInv, NEW w \in Workers, pc[w] = "user"
               PROVE  \E t \in cur[w] :
                        /\ \A q \in Regs : reg[w][q] = Expected(t, q)
                        /\ csr[w].uepc = Pc(t, traps[t], IF last[t] = "call" THEN 4 ELSE 0)
                        /\ csr[w].uscratch = Ctx(t)
    BY DEF SandboxResumes
  <2>1. PICK t \in Tasks : Inside(w, t)
    BY InContext
  <2>2. t \in cur[w] /\ Entered("user", w, t, reg[w], csr[w], area[t], traps[t], last[t])
    BY <2>1 DEF Inside
  <2> QED
    BY <2>2 DEF Entered, Expected
<1> QED
  BY <1>1, CtxHold, PTL

\* While a sandbox runs, the DASICS registers of its worker are the bounds the
\* host asked for in its context: lps_load_dasics and the four calls of bound.c.
THEOREM BoundsFollowTaskHolds ==
  ASSUME NoMigration
  PROVE  Spec => []BoundsFollowTask
<1>1. CtxInv => BoundsFollowTask
  <2> SUFFICES ASSUME CtxInv PROVE BoundsFollowTask
    OBVIOUS
  <2>1. ASSUME NEW w \in Workers, pc[w] = "user"
        PROVE  \E t \in cur[w] :
                 LET d   == csr[w].dasics
                     cfg == d[CSR_DLCFG][2]
                 IN
                 /\ \A i \in 0 .. NMEM - 1 :
                      IF i < 8 /\ asked[t].mem[i] # 0
                      THEN d[CSR_DLBOUND(i, 0)] = Low(t, "mem", i) /\ d[CSR_DLBOUND(i, 1)] = High(t, "mem", i)
                      ELSE d[CSR_DLBOUND(i, 0)] = Zero /\ d[CSR_DLBOUND(i, 1)] = Zero
                 /\ \A i \in 0 .. 7 : cfg[i] = asked[t].mem[i]
                 /\ \A i \in 8 .. 15 : cfg[i] # 0 => asked[t].mem[7] # 0
                 /\ \A i \in 0 .. NJMP - 1 :
                      /\ d[CSR_DJCFG][2][i] = asked[t].jmp[i]
                      /\ d[CSR_DJBOUND(i, 0)] = IF asked[t].jmp[i] # 0 THEN Low(t, "jmp", i) ELSE Zero
                      /\ d[CSR_DJBOUND(i, 1)] = IF asked[t].jmp[i] # 0 THEN High(t, "jmp", i) ELSE Zero
    <3>1. PICK t \in Tasks : Inside(w, t)
      BY <2>1, InContext
    <3>2. t \in cur[w]
      BY <3>1 DEF Inside
    <3>3. PICK d : d = csr[w].dasics
      OBVIOUS
    <3>4. PICK m : m = area[t]
      OBVIOUS
    <3>5. PICK a : a = asked[t]
      OBVIOUS
    <3>6. d = lps_load_dasics(m)
      BY <3>1, <3>3, <3>4 DEF Inside
    <3>7. \A n \in DasicsCSRs : d[n] = m[DasicsSource[n]]
      BY <3>6 DEF lps_load_dasics
    <3>8. 0 \in 0 .. 1 /\ 1 \in 0 .. 1
      OBVIOUS
    <3>9. /\ d[CSR_DLCFG] = m[OFFSET_MEMCFG] /\ d[CSR_DJCFG] = m[OFFSET_JMPCFG]
          /\ \A i \in 0 .. NMEM - 1 : /\ d[CSR_DLBOUND(i, 0)] = m[membound(i, 0)]
                                      /\ d[CSR_DLBOUND(i, 1)] = m[membound(i, 1)]
          /\ \A i \in 0 .. NJMP - 1 : /\ d[CSR_DJBOUND(i, 0)] = m[jmpbound(i, 0)]
                                      /\ d[CSR_DJBOUND(i, 1)] = m[jmpbound(i, 1)]
      BY <3>7, <3>8, Sources
    <3>10. Bounded(m, a, t)
      BY <3>4, <3>5 DEF CtxInv, TaskInv, TaskOK
    <3>11. /\ MemAsked(m, m[OFFSET_MEMCFG][2], a.mem, t)
           /\ JmpAsked(m, m[OFFSET_JMPCFG][2], a.jmp, t)
      BY <3>10 DEF Bounded
    <3>12. /\ \A i \in 0 .. NMEM - 1 :
                IF i < 8 /\ a.mem[i] # 0
                THEN d[CSR_DLBOUND(i, 0)] = Low(t, "mem", i) /\ d[CSR_DLBOUND(i, 1)] = High(t, "mem", i)
                ELSE d[CSR_DLBOUND(i, 0)] = Zero /\ d[CSR_DLBOUND(i, 1)] = Zero
           /\ \A i \in 0 .. 7 : d[CSR_DLCFG][2][i] = a.mem[i]
           /\ \A i \in 8 .. 15 : d[CSR_DLCFG][2][i] # 0 => a.mem[7] # 0
      BY <3>9, <3>11 DEF MemAsked
    <3>13. \A i \in 0 .. NJMP - 1 :
             /\ d[CSR_DJCFG][2][i] = a.jmp[i]
             /\ d[CSR_DJBOUND(i, 0)] = IF a.jmp[i] # 0 THEN Low(t, "jmp", i) ELSE Zero
             /\ d[CSR_DJBOUND(i, 1)] = IF a.jmp[i] # 0 THEN High(t, "jmp", i) ELSE Zero
      BY <3>9, <3>11 DEF JmpAsked
    <3> QED
      BY <3>2, <3>3, <3>5, <3>12, <3>13
  <2> QED
    BY <2>1 DEF BoundsFollowTask
<1> QED
  BY <1>1, CtxHold, PTL

\* A handler has the kernel stack of the task that trapped and its worker's own
\* thread-local storage, although both are found through a word saved when the
\* context was first entered.
THEOREM HandlerAtHomeHolds ==
  ASSUME NoMigration
  PROVE  Spec => []HandlerAtHome
<1>1. CtxInv => HandlerAtHome
  <2> SUFFICES ASSUME CtxInv, NEW w \in Workers, pc[w] \in HandlerPCs
               PROVE  /\ \E t \in cur[w] :
                           /\ reg[w]["sp"] = Kstack(t) /\ reg[w]["s0"] = Ctx(t) /\ reg[w]["s1"] = Ctx(t)
                           /\ tls[w].myctx = Ctx(t)
                      /\ reg[w]["tp"] = Tls(w) /\ reg[w]["gp"] = Global
    BY DEF HandlerAtHome
  <2>1. PICK t \in Tasks : Inside(w, t)
    BY InContext DEF HandlerPCs
  <2>2. t \in cur[w]
    BY <2>1 DEF Inside
  <2>3. /\ AtHome(w, t, reg[w]) /\ reg[w]["s0"] = Ctx(t) /\ reg[w]["s1"] = Ctx(t)
        /\ tls[w].myctx = Ctx(t)
    BY <2>1, WhereInside
  <2> QED
    BY <2>2, <2>3 DEF AtHome
<1> QED
  BY <1>1, CtxHold, PTL

\* lps_thread_run returns to the loop that called it, with the loop's own
\* registers and the thread it ran.
THEOREM ReturnsToCallerHolds ==
  ASSUME NoMigration
  PROVE  Spec => []ReturnsToCaller
<1>1. CtxInv => ReturnsToCaller
  <2> SUFFICES ASSUME CtxInv, NEW w \in Workers
               PROVE  /\ pc[w] \in {"loop", "after_run", "end"} =>
                           /\ reg[w]["sp"] = Pstack(w) /\ reg[w]["tp"] = Tls(w) /\ reg[w]["gp"] = Global
                           /\ \A q \in KRegs \ {"ra", "sp", "s1"} : reg[w][q] = Loop(w, q)
                      /\ pc[w] = "after_run" => cur[w] = {Owner(reg[w]["s1"])}
    BY DEF ReturnsToCaller
  <2>1. CASE pc[w] \in {"loop", "end"}
    BY <2>1, InTheLoop DEF InLoop
  <2>2. CASE pc[w] = "after_run"
    <3>1. WorkerOK(w)
      BY DEF CtxInv, WorkerInv
    <3>2. ASSUME NEW t \in Tasks PROVE ~Inside(w, t)
      BY <2>2 DEF Inside, Entered
    <3>3. PICK t \in Tasks : Outside(w, t)
      BY <2>2, <3>1, <3>2 DEF WorkerOK
    <3>4. cur[w] = {t} /\ InLoop(w, reg[w]) /\ reg[w]["s1"] = Thread(t)
      BY <3>3 DEF Outside
    <3> QED
      BY <3>4, Owners DEF InLoop
  <2> QED
    BY <2>1, <2>2
<1> QED
  BY <1>1, CtxHold, PTL
=============================================================================
