-------------------------------- MODULE Ctx --------------------------------
(***************************************************************************)
(* Execution contexts: how a worker of a scheduler gets into a sandbox and *)
(* back (lps-core/ctx.c, runtime.S), the trap handler (sys.c) and the      *)
(* loops that call lps_thread_run (sched.c, apps/lps-security).            *)
(*                                                                         *)
(* The machine is explicit: a register, a word of a context or of          *)
(* thread-local storage holds a tuple that says what it stands for, and    *)
(* the code finds a context, a stack or a TLS block only through the       *)
(* registers it would use.  The sandbox runs with fresh values in every    *)
(* register, one stage between two traps.                                  *)
(***************************************************************************)
EXTENDS Bound, FiniteSets, FiniteSetsExt

CONSTANTS
  Workers,      \* pthreads that run a scheduler loop
  Tasks,        \* LPSThreads, each with its context, box and kernel stack
  Hosts,        \* how the program may run them: "rr", "mc" or "security"
  Steals,       \* whether mcsched_loop may steal a task that has already run
  MemIdx,       \* memory bounds the host sets up besides bound 0, below 8
  JmpIdx,       \* jump bounds the host sets up besides bound 0
  MaxSets,      \* bound: calls of bound.c while the host sets up
  MaxTraps      \* bound: traps of one task

ASSUME CtxAssumption ==
  /\ Workers # {} /\ IsFiniteSet(Workers)
  /\ Hosts \subseteq {"rr", "mc", "security"}
  /\ Steals \in BOOLEAN /\ MaxSets \in Nat /\ MaxTraps \in Nat
  /\ MemIdx \subseteq 0 .. 7 /\ JmpIdx \subseteq 0 .. NJMP - 1

VARIABLES
  host,         \* which loop runs the tasks
  setups,       \* calls of bound.c so far; Running once the loops run
  pc,           \* per worker: the code it is in
  reg,          \* per worker: ra, sp, gp, ...
  csr,          \* per worker: uscratch, uepc and the DASICS registers
  tls,          \* per worker: lps_myctx and lps_kctx
  area,         \* per task: ctx->regs
  kregs,        \* per task: ctx->kregs
  state,        \* per task: LPSThread.state
  place,        \* per task: the queue it is in
  traps,        \* per task: how often it has trapped
  cur,          \* history, per worker: the task lps_thread_run was called with
  last,         \* history, per task: the kind of its last trap
  asked         \* history: the configuration the host asked for, per bound

vars == <<host, setups, pc, reg, csr, tls, area, kregs, state, place, traps, cur, last, asked>>

Running == MaxSets + 1
RRWorker == CHOOSE w \in Workers : TRUE

-----------------------------------------------------------------------------
(* Values *)

Regs == GPR \ {"zero"}

Ctx(t) == <<"ctx", t>>               \* &ctx->regs, which is ctx itself
Kstack(t) == <<"kstack", t>>         \* the top of the context's kernel stack
Pstack(w) == <<"pstack", w>>         \* the pthread's stack in the loop
Tls(w) == <<"tls", w>>               \* the pthread's tp
Global == <<"gp">>                   \* gp is the same for every pthread
Code(name) == <<"code", name>>
Loop(w, r) == <<"loop", w, r>>       \* what the loop keeps in r
User(t, r, n) == <<"user", t, r, n>> \* what stage n of the sandbox left in r
Pc(t, n, k) == <<"pc", t, n, k>>     \* k bytes after the end of stage n
Ret(t, n) == <<"ret", t, n>>         \* the result of the n-th system call
Junk == <<"junk">>

Thread(t) == <<"thread", t>>         \* the loop's local t

Owner(v) == v[2]
\* Where a return address leads.
Target(v) == IF v[1] = "code" THEN v[2] ELSE "lost"

MyTls(w) == Owner(reg[w]["tp"])

\* The low and high end of bound idx of task t, once it is set.
Low(t, kind, idx) == <<"low", t, kind, idx>>
High(t, kind, idx) == <<"high", t, kind, idx>>

-----------------------------------------------------------------------------
(* runtime.S *)

\* kswitch: the registers saved for the old context, and the registers after
\* the new one is loaded.  The compiled caller expects nothing of the
\* caller-saved ones.
KSave(r) == [q \in KRegs |-> r[q]]
\* Bug form: s11 is not loaded.
KLoad_short(r, new) == [q \in Regs |-> IF q \in KRegs \ {"s11"} THEN new[q] ELSE r[q]]

KLoad(r, new) == [q \in Regs |-> IF q \in KRegs THEN new[q]
                              ELSE IF q \in {"gp", "tp", "a0"} THEN r[q] ELSE Junk]

\* SAVE_ALL into the words m of a context: every register of the sandbox, r,
\* in its word.
RegAt == [o \in {OFFSET[q] : q \in Regs} |-> CHOOSE q \in Regs : OFFSET[q] = o]
SaveGPR(m, r) == [o \in Words |-> IF o \in DOMAIN RegAt THEN r[RegAt[o]] ELSE m[o]]

\* Bug form: s0 is left out, as the line for it in the block is.
SaveWords_nos0(m, r, c) ==
  [SaveGPR(m, r) EXCEPT ![OFFSET["s0"]] = m[OFFSET["s0"]], ![OFFSET_UEPC] = c.uepc,
                        ![OFFSET_UCAUSE] = c.ucause, ![OFFSET_DFREN] = c.dfreason]

\* s0 is saved from where the swap with uscratch left it, and c has the trap's
\* registers.
SaveWords(m, r, c) ==
  [SaveGPR(m, r) EXCEPT ![OFFSET["s0"]] = c.uscratch, ![OFFSET_UEPC] = c.uepc,
                        ![OFFSET_UCAUSE] = c.ucause, ![OFFSET_DFREN] = c.dfreason]

\* ... and the registers after it: s0 is the context, sp, gp and tp are the
\* runtime's.
SaveRegs(m, r, ctx) ==
  [r EXCEPT !["s0"] = ctx, !["t0"] = Junk,
            !["sp"] = m[OFFSET_KSP], !["gp"] = m[OFFSET_KGP], !["tp"] = m[OFFSET_KTP]]

\* RESTORE_ALL from the words m.
RestoreRegs(m) == [q \in Regs |-> m[OFFSET[q]]]

RESTORE_ALL(w, ctx, m) ==
  /\ reg' = [reg EXCEPT ![w] = RestoreRegs(m)]
  /\ csr' = [csr EXCEPT ![w].uscratch = ctx, ![w].uepc = m[OFFSET_UEPC]]
  /\ pc' = [pc EXCEPT ![w] = "user"]

\* Bug form: the kernel stack is not kept.
EntryWords_nosp(m, r) ==
  [m EXCEPT ![OFFSET_KGP] = r["gp"], ![OFFSET_KTP] = r["tp"]]

\* lps_ctx_entry, first part: keep the runtime's sp, gp and tp.
EntryWords(m, r) ==
  [m EXCEPT ![OFFSET_KSP] = r["sp"], ![OFFSET_KGP] = r["gp"], ![OFFSET_KTP] = r["tp"]]

-----------------------------------------------------------------------------
(* Creation *)

\* lps_ctx_new and lps_thread_new: zeroed registers, sp and uepc, the box as
\* bound 0, and a kernel stack whose first return goes to lps_ctx_entry.
NewWords(t) ==
  LET m0 == [o \in Words |-> Zero]
      m1 == [m0 EXCEPT ![OFFSET["sp"]] = User(t, "sp", 0), ![OFFSET_UEPC] = Pc(t, 0, 0)]
      m2 == lps_membound_set(m1, 0, LIBCFG_R + LIBCFG_W, Low(t, "mem", 0), High(t, "mem", 0))
  IN  lps_jmpbound_set(m2, 0, Low(t, "jmp", 0), High(t, "jmp", 0))

kregs_init(t) ==
  [q \in KRegs |-> CASE q = "ra" -> Code("lps_ctx_entry") [] q = "sp" -> Kstack(t) [] OTHER -> Zero]

LoopRegs(w) ==
  [q \in Regs |-> CASE q = "sp" -> Pstack(w) [] q = "gp" -> Global
                    [] q = "tp" -> Tls(w) [] OTHER -> Loop(w, q)]

\* Where rrschedadd, mcsched_add or main leaves a new thread.
FirstPlace(h) == CASE h = "rr" -> <<"runq">> [] h = "mc" -> <<"grunq">> [] OTHER -> <<"main">>

NoAsk == [mem |-> [i \in 0 .. 7 |-> IF i = 0 THEN LIBCFG_V + LIBCFG_R + LIBCFG_W ELSE 0],
          jmp |-> [i \in 0 .. NJMP - 1 |-> IF i = 0 THEN JMPCFG_V ELSE 0]]

Init ==
  /\ host \in Hosts
  /\ setups = 0
  /\ pc = [w \in Workers |-> "loop"]
  /\ reg = [w \in Workers |-> LoopRegs(w)]
  /\ csr = [w \in Workers |-> [uscratch |-> Junk, uepc |-> Junk, dasics |-> [n \in DasicsCSRs |-> Junk]]]
  /\ tls = [w \in Workers |-> [myctx |-> Zero, kctx |-> [q \in KRegs |-> Zero]]]
  /\ area = [t \in Tasks |-> NewWords(t)]
  /\ kregs = [t \in Tasks |-> kregs_init(t)]
  /\ state = [t \in Tasks |-> "RUNNABLE"]
  /\ place = [t \in Tasks |-> FirstPlace(host)]
  /\ traps = [t \in Tasks |-> 0]
  /\ cur = [w \in Workers |-> {}]
  /\ last = [t \in Tasks |-> "start"]
  /\ asked = [t \in Tasks |-> NoAsk]

\* The host calls bound.c on a context before it starts a loop.
BoundCall(t, m, a) ==
  /\ setups < MaxSets
  /\ setups' = setups + 1
  /\ area' = [area EXCEPT ![t] = m]
  /\ asked' = [asked EXCEPT ![t] = a]
  /\ UNCHANGED <<host, pc, reg, csr, tls, kregs, state, place, traps, cur, last>>

SetUp(t) ==
  \/ \E i \in MemIdx, prot \in {LIBCFG_R, LIBCFG_R + LIBCFG_W} :
       BoundCall(t, lps_membound_set(area[t], i, prot, Low(t, "mem", i), High(t, "mem", i)),
                 [asked[t] EXCEPT !.mem[i] = LIBCFG_V + prot])
  \/ \E i \in MemIdx :
       BoundCall(t, lps_membound_clear(area[t], i), [asked[t] EXCEPT !.mem[i] = 0])
  \/ \E i \in JmpIdx :
       BoundCall(t, lps_jmpbound_set(area[t], i, Low(t, "jmp", i), High(t, "jmp", i)),
                 [asked[t] EXCEPT !.jmp[i] = JMPCFG_V])
  \/ \E i \in JmpIdx :
       BoundCall(t, lps_jmpbound_clear(area[t], i), [asked[t] EXCEPT !.jmp[i] = 0])

Start ==
  /\ setups < Running
  /\ setups' = Running
  /\ UNCHANGED <<host, pc, reg, csr, tls, area, kregs, state, place, traps, cur, last, asked>>

-----------------------------------------------------------------------------
(* ctx.c: into a context and back *)

\* A loop calls lps_thread_run on t: lps_kswitch_to sets lps_myctx, loads the
\* bounds and switches from lps_kctx, both found through tp.
lps_thread_run(w, t) ==
  LET r == [reg[w] EXCEPT !["a0"] = Ctx(t), !["s1"] = Thread(t), !["ra"] = Code("after_run")] IN
  /\ tls' = [tls EXCEPT ![MyTls(w)] = [myctx |-> Ctx(t), kctx |-> KSave(r)]]
  /\ csr' = [csr EXCEPT ![w].dasics = lps_load_dasics(area[t])]
  /\ reg' = [reg EXCEPT ![w] = KLoad(r, kregs[t])]
  /\ pc' = [pc EXCEPT ![w] = Target(kregs[t]["ra"])]

\* lps_thread_exit on the thread of ctx: save where it stands, load lps_kctx.
lps_kswitch_from(w, ctx, back) ==
  LET r == [reg[w] EXCEPT !["ra"] = Code(back)]
      k == tls[MyTls(w)].kctx
  IN
  /\ kregs' = [kregs EXCEPT ![Owner(ctx)] = KSave(r)]
  /\ reg' = [reg EXCEPT ![w] = KLoad(r, k)]
  /\ pc' = [pc EXCEPT ![w] = Target(k["ra"])]

lps_ctx_entry(w) ==
  LET ctx == reg[w]["a0"]
      m   == EntryWords(area[Owner(ctx)], reg[w])
  IN
  /\ pc[w] = "lps_ctx_entry"
  /\ area' = [area EXCEPT ![Owner(ctx)] = m]
  /\ RESTORE_ALL(w, ctx, m)
  /\ UNCHANGED <<host, setups, tls, kregs, state, place, traps, cur, last, asked>>

-----------------------------------------------------------------------------
(* The loops *)

In(p) == {t \in Tasks : place[t] = p}
Mine(w) == In(<<"local", MyTls(w)>>)

\* The loop of w may take t next: mcsched_loop tries its own queue, the global
\* one and then the others'.  The order within a queue is left open.
MayTake(w, t) ==
  CASE host = "rr" -> w = RRWorker /\ place[t] = <<"runq">>
    [] host = "mc" -> \/ t \in Mine(w)
                      \/ /\ Mine(w) = {} /\ In(<<"grunq">>) = {}
                         /\ place[t][1] = "local" /\ (Steals \/ traps[t] = 0)
    [] OTHER -> w = RRWorker /\ place[t] = <<"main">>

Take(w, t) ==
  /\ setups = Running
  /\ pc[w] = "loop"
  /\ MayTake(w, t)
  /\ lps_thread_run(w, t)
  /\ place' = [place EXCEPT ![t] = <<"out">>]
  /\ cur' = [cur EXCEPT ![w] = {t}]
  /\ UNCHANGED <<host, setups, area, kregs, state, traps, last, asked>>

\* A share of the global queue becomes the local queue.
Share(w) ==
  LET n == Cardinality(In(<<"grunq">>)) IN
  /\ setups = Running
  /\ host = "mc" /\ pc[w] = "loop"
  /\ Mine(w) = {} /\ n > 0
  /\ \E S \in SUBSET In(<<"grunq">>) :
       /\ Cardinality(S) = Min({n, (n \div Cardinality(Workers)) + 1})
       /\ place' = [t \in Tasks |-> IF t \in S THEN <<"local", MyTls(w)>> ELSE place[t]]
  /\ UNCHANGED <<host, setups, pc, reg, csr, tls, area, kregs, state, traps, cur, last, asked>>

\* lps_thread_run has returned: a runnable thread is queued again.  The main
\* program of lps-security ends.
AfterRun(w) ==
  LET t == Owner(reg[w]["s1"]) IN
  /\ pc[w] = "after_run"
  /\ pc' = [pc EXCEPT ![w] = IF host = "security" THEN "end" ELSE "loop"]
  /\ place' = [place EXCEPT ![t] =
                 IF state[t] # "RUNNABLE" THEN @
                 ELSE CASE host = "rr" -> <<"runq">>
                        [] host = "mc" -> <<"local", MyTls(w)>>
                        [] OTHER -> @]
  /\ cur' = [cur EXCEPT ![w] = {}]
  /\ UNCHANGED <<host, setups, reg, csr, tls, area, kregs, state, traps, last, asked>>

-----------------------------------------------------------------------------
(* Traps *)

\* The causes a host's sandboxes can meet: only rrschedstart arms the timer.
Causes ==
  {<<"DASICS", "EF">>, <<"DASICS", "LF">>}
  \cup (IF host = "rr" THEN {<<"IRQ_U_TIME", "none">>} ELSE {})
  \cup (IF host = "security" THEN {<<"ILLEGAL", "none">>} ELSE {})

\* The sandbox runs and traps: dasics_ufault_entry up to the handler, which
\* keeps regs in s1.
dasics_ufault_entry(w) ==
  LET t   == Owner(csr[w].uepc)
      n   == traps[t] + 1
      r   == [q \in Regs |-> User(t, q, n)]
      ctx == csr[w].uscratch
      m   == area[Owner(ctx)]
  IN
  /\ pc[w] = "user" /\ traps[t] < MaxTraps
  /\ \E c \in Causes :
       /\ area' = [area EXCEPT ![Owner(ctx)] =
                    SaveWords(m, r, [uscratch |-> r["s0"], uepc |-> Pc(t, n, 0),
                                     ucause |-> <<c[1]>>, dfreason |-> <<c[2]>>])]
       /\ last' = [last EXCEPT ![t] = IF c[1] = "IRQ_U_TIME" THEN "irq" ELSE "call"]
  /\ reg' = [reg EXCEPT ![w] = [SaveRegs(m, r, ctx) EXCEPT !["a0"] = ctx, !["s1"] = ctx]]
  /\ csr' = [csr EXCEPT ![w].uscratch = r["s0"], ![w].uepc = Pc(t, n, 0)]
  /\ pc' = [pc EXCEPT ![w] = "handler"]
  /\ traps' = [traps EXCEPT ![t] = n]
  /\ UNCHANGED <<host, setups, tls, kregs, state, place, cur, asked>>

\* The handler of w looks at a trap with this cause and reason.
Handles(w, cause, reasons) ==
  /\ pc[w] = "handler"
  /\ area[Owner(reg[w]["a0"])][OFFSET_UCAUSE] = <<cause>>
  /\ area[Owner(reg[w]["a0"])][OFFSET_DFREN] \in {<<x>> : x \in reasons}

\* regs->uepc += 4
NextInsn(m) == [m EXCEPT ![OFFSET_UEPC] = Pc(@[2], @[3], @[4] + 4)]

\* regs->a0 = r, and the return into the sandbox.
ReturnA0(w, m) ==
  LET t == Owner(reg[w]["s1"])
      mr == [m EXCEPT ![OFFSET["a0"]] = Ret(t, traps[t])]
  IN
  /\ area' = [area EXCEPT ![t] = mr]
  /\ RESTORE_ALL(w, reg[w]["s0"], IF Owner(reg[w]["s0"]) = t THEN mr ELSE area[Owner(reg[w]["s0"])])

TimerIrq(w) ==
  /\ Handles(w, "IRQ_U_TIME", {"none"})
  /\ lps_kswitch_from(w, reg[w]["a0"], "back_irq")
  /\ UNCHANGED <<host, setups, csr, tls, area, state, place, traps, cur, last, asked>>

\* A system call that comes back at once; it may wake the queue it works on.
SysReturn(w) ==
  /\ Handles(w, "DASICS", {"EF"})
  /\ ReturnA0(w, NextInsn(area[Owner(reg[w]["a0"])]))
  /\ \E woken \in {{}, {u \in Tasks : place[u] = <<"wait">>}} :
       /\ state' = [u \in Tasks |-> IF u \in woken THEN "RUNNABLE" ELSE state[u]]
       /\ place' = [u \in Tasks |-> IF u \in woken THEN <<"runq">> ELSE place[u]]
  /\ UNCHANGED <<host, setups, tls, kregs, traps, cur, last, asked>>

\* One that leaves the worker: YIELD, a pipe that blocks, or exit.
SysLeave(w) ==
  LET ctx == reg[w]["a0"]
      me  == tls[MyTls(w)].myctx      \* lps_cur_ctx()
  IN
  /\ Handles(w, "DASICS", {"EF"})
  /\ area' = [area EXCEPT ![Owner(ctx)] = NextInsn(@)]
  /\ \/ /\ lps_kswitch_from(w, ctx, "back_call")
        /\ UNCHANGED <<state, place>>
     \/ /\ lps_kswitch_from(w, me, "back_block")
        /\ state' = [state EXCEPT ![Owner(me)] = "BLOCKED"]
        /\ place' = [place EXCEPT ![Owner(me)] = <<"wait">>]
     \/ /\ lps_kswitch_from(w, ctx, "unreachable")
        /\ state' = [state EXCEPT ![Owner(ctx)] = "EXITED"]
        /\ UNCHANGED place
  /\ UNCHANGED <<host, setups, csr, tls, traps, cur, last, asked>>

\* assert(0) on any other DASICS fault: the whole program ends.
FaultAbort(w) ==
  /\ host # "security"
  /\ Handles(w, "DASICS", {"LF"})
  /\ pc' = [pc EXCEPT ![w] = "aborted"]
  /\ UNCHANGED <<host, setups, reg, csr, tls, area, kregs, state, place, traps, cur, last, asked>>

\* security_syshandle: a fault is skipped, with a0 = -1, or ends the run.
FaultSkip(w) ==
  /\ host = "security"
  /\ Handles(w, "DASICS", {"LF"}) \/ Handles(w, "ILLEGAL", {"none"})
  /\ ReturnA0(w, NextInsn(area[Owner(reg[w]["a0"])]))
  /\ UNCHANGED <<host, setups, tls, kregs, state, place, traps, cur, last, asked>>

FaultLeave(w) ==
  /\ host = "security"
  /\ Handles(w, "DASICS", {"LF"}) \/ Handles(w, "ILLEGAL", {"none"})
  /\ lps_kswitch_from(w, reg[w]["a0"], "back_irq")
  /\ UNCHANGED <<host, setups, csr, tls, area, state, place, traps, cur, last, asked>>

\* kswitch came back into a handler that had left.
BackIrq(w) ==
  /\ pc[w] = "back_irq"
  /\ RESTORE_ALL(w, reg[w]["s0"], area[Owner(reg[w]["s0"])])
  /\ UNCHANGED <<host, setups, tls, area, kregs, state, place, traps, cur, last, asked>>

BackCall(w) ==
  /\ pc[w] \in {"back_call", "back_block"}
  /\ ReturnA0(w, area[Owner(reg[w]["s1"])])
  /\ UNCHANGED <<host, setups, tls, kregs, state, place, traps, cur, last, asked>>

\* The pipe is still not ready.
BlockAgain(w) ==
  LET me == tls[MyTls(w)].myctx IN
  /\ pc[w] = "back_block"
  /\ lps_kswitch_from(w, me, "back_block")
  /\ state' = [state EXCEPT ![Owner(me)] = "BLOCKED"]
  /\ place' = [place EXCEPT ![Owner(me)] = <<"wait">>]
  /\ UNCHANGED <<host, setups, csr, tls, area, traps, cur, last, asked>>

arch_syshandle(w) ==
  \/ TimerIrq(w) \/ SysReturn(w) \/ SysLeave(w) \/ FaultAbort(w)
  \/ BackIrq(w) \/ BackCall(w) \/ BlockAgain(w)

security_syshandle(w) == FaultSkip(w) \/ FaultLeave(w)

Aborted == \E w \in Workers : pc[w] = "aborted"

Next ==
  \/ Start
  \/ \E t \in Tasks : SetUp(t)
  \/ /\ ~Aborted
     /\ \E w \in Workers :
          \/ \E t \in Tasks : Take(w, t)
          \/ Share(w) \/ AfterRun(w) \/ lps_ctx_entry(w) \/ dasics_ufault_entry(w)
          \/ arch_syshandle(w) \/ security_syshandle(w)

Spec == Init /\ [][Next]_vars

-----------------------------------------------------------------------------
(* Properties *)

HandlerPCs == {"handler", "back_irq", "back_call", "back_block"}

\* What the sandbox of t must find: its registers as they were when it was
\* interrupted; after a system call a0 is the result and the ecall is behind
\* it; at the start everything but sp is zero.
Expected(t, q) ==
  CASE last[t] = "start" -> IF q = "sp" THEN User(t, "sp", 0) ELSE Zero
    [] last[t] = "call" /\ q = "a0" -> Ret(t, traps[t])
    [] OTHER -> User(t, q, traps[t])

\* However often tasks are switched, a sandbox that runs again finds every
\* register and its pc as it left them, and uscratch points to its context.
SandboxResumes ==
  \A w \in Workers : pc[w] = "user" =>
    \E t \in cur[w] :
      /\ \A q \in Regs : reg[w][q] = Expected(t, q)
      /\ csr[w].uepc = Pc(t, traps[t], IF last[t] = "call" THEN 4 ELSE 0)
      /\ csr[w].uscratch = Ctx(t)

\* While a sandbox runs, bounds 0 to 7 of the worker are the ones the host
\* asked for in its own context, and a higher bound covers no address and is
\* off unless bound 7, whose bit is the sign of an int, has been on.
BoundsFollowTask ==
  \A w \in Workers : pc[w] = "user" =>
    \E t \in cur[w] :
      LET d   == csr[w].dasics
          cfg == d[CSR_DLCFG][2]
      IN
      /\ \A i \in 0 .. NMEM - 1 :
           IF i < 8 /\ asked[t].mem[i] # 0
           THEN d[CSR_DLBOUND(i, 0)] = Low(t, "mem", i) /\ d[CSR_DLBOUND(i, 1)] = High(t, "mem", i)
           ELSE d[CSR_DLBOUND(i, 0)] = Zero /\ d[CSR_DLBOUND(i, 1)] = Zero
      /\ \A i \in 0 .. 7 : cfg[i] = asked[t].mem[i]
      /\ \A i \in 8 .. 15 : cfg[i] # 0 => asked[t].mem[7] # 0
      /\ \A i \in 0 .. NJMP - 1 :
           /\ d[CSR_DJCFG][2][i] = asked[t].jmp[i]
           /\ d[CSR_DJBOUND(i, 0)] = IF asked[t].jmp[i] # 0 THEN Low(t, "jmp", i) ELSE Zero
           /\ d[CSR_DJBOUND(i, 1)] = IF asked[t].jmp[i] # 0 THEN High(t, "jmp", i) ELSE Zero

\* The handler of a trap runs on the kernel stack of the task that trapped,
\* with its worker's own thread-local storage, and lps_cur_ctx() is the
\* context it works for.
HandlerAtHome ==
  \A w \in Workers : pc[w] \in HandlerPCs =>
    /\ \E t \in cur[w] :
         /\ reg[w]["sp"] = Kstack(t) /\ reg[w]["s0"] = Ctx(t) /\ reg[w]["s1"] = Ctx(t)
         /\ tls[w].myctx = Ctx(t)
    /\ reg[w]["tp"] = Tls(w) /\ reg[w]["gp"] = Global

\* lps_thread_run returns to the loop that called it, on the pthread that
\* called it: its stack, its tp, its callee-saved registers, and the local t
\* that it ran.
ReturnsToCaller ==
  \A w \in Workers :
    /\ pc[w] \in {"loop", "after_run", "end"} =>
         /\ reg[w]["sp"] = Pstack(w) /\ reg[w]["tp"] = Tls(w) /\ reg[w]["gp"] = Global
         /\ \A q \in KRegs \ {"ra", "sp", "s1"} : reg[w][q] = Loop(w, q)
    /\ pc[w] = "after_run" => cur[w] = {Owner(reg[w]["s1"])}

=============================================================================
