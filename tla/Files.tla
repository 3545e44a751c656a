------------------------------- MODULE Files -------------------------------
(***************************************************************************)
(* The descriptor tables of the sandboxes (lps-linux/fd.c, kfile.c), the   *)
(* system calls that go through them (sys/sys_file.c, sys_cwd.c,           *)
(* sys_ioctl.c, the descriptor argument of mmap in proc.c), the pipe ends  *)
(* the host program puts into them (lps_pipe_new) and the working          *)
(* directory (proc_chdir).                                                 *)
(*                                                                         *)
(* Every sandbox has one thread; sandboxes run on several workers, so the  *)
(* calls made of several host calls (readv, writev, pread64) interleave    *)
(* with the calls of the other sandboxes.                                  *)
(***************************************************************************)
EXTENDS CWalk, FiniteSetsExt

CONSTANTS
  NProc,      \* sandboxes
  NOFILE,     \* slots of a descriptor table (LINUX_NOFILE)
  NStd,       \* descriptors every sandbox starts with
  MaxFiles,   \* bound: FDFile structures ever allocated
  RefMod,     \* refs is a size_t: it wraps here
  MaxOff,     \* bound: size of a host file
  MaxIov,     \* bound: vectors of a readv or writev
  MaxDepth,   \* bound: depth of a working directory
  Walkers,    \* bound: sandboxes that change directory
  Movers,     \* bound: sandboxes that read, write and seek
  Openers,    \* bound: sandboxes that open, duplicate and close files
  PipeFds,    \* descriptors given to lps_pipe_new
  Names,      \* the names in the paths
  OpenPaths,  \* paths given to openat
  ChdirPaths  \* paths given to chdir

Procs   == 1 .. NProc
Slots   == 0 .. NOFILE - 1
FileIds == 1 .. MaxFiles
NoFile  == 0
Path    == [abs : BOOLEAN, segs : Seq(Names \union {CWK_CURRENT, CWK_BACK})]
NoPath  == [abs |-> FALSE, segs |-> <<>>]      \* NULL, and the empty cwd

\* The place of a sandbox that went to a descriptor opened by a relative path.
\* openat hands such a path to the host, which starts from the host program's
\* directory: a place that no path of the sandbox leads to.
Astray == <<CWK_CURRENT>>

ASSUME FilesAssumption ==
  /\ {NProc, NOFILE, NStd, MaxFiles, RefMod, MaxOff, MaxIov, MaxDepth} \subseteq Nat
  /\ NOFILE # 0 /\ MaxIov # 0
  /\ NStd <= NOFILE /\ NProc * NStd <= MaxFiles /\ RefMod > NOFILE
  /\ OpenPaths \union ChdirPaths \subseteq Path \ {NoPath} /\ PipeFds \subseteq Slots
  /\ Walkers \union Movers \union Openers \subseteq Procs

VARIABLES
  started,  \* the host program has set up the pipes and runs the sandboxes
  state,    \* a sandbox is "up" or "exited"
  table,    \* table[p][fd], the FDFile in a slot or NoFile
  file,     \* the FDFile structures
  nfiles,   \* how many were allocated
  off,      \* the host's offset of an opened file; the standard files, dup'ed
            \* from the host's own, and the pipes have none that is followed
  call,     \* a call under way that takes several host calls
  cwd,      \* proc->cwd.path
  where,    \* history: the directory the sandbox asked to be in, or Astray
  wrong,    \* "no", or the undefined behaviour the runtime ran into
  blame     \* history: the structure it ran into it with

vars == <<started, state, table, file, nfiles, off, call, cwd, where, wrong, blame>>

-----------------------------------------------------------------------------
(* FDFile structures *)

Kinds == {"std", "opened", "rend", "wend"}

\* refs, mem and open are the code's; owner, peak (slots it was ever in at
\* once), taken (by sys_close, or refused by a full table) and half (its
\* lps_pipe_new failed) are history.  clean tells whether malloc returned
\* zeroes for the members pipe_new leaves unset.
FileRecord ==
  [kind : Kinds, mem : {"live", "freed"}, refs : 0 .. RefMod - 1, open : BOOLEAN,
   path : OpenPaths \union {NoPath}, clean : BOOLEAN,
   owner : Procs, peak : 0 .. NOFILE, taken : BOOLEAN, half : BOOLEAN]

filenew(kind, path, p) ==
  [kind |-> kind, mem |-> "live", refs |-> 0, open |-> TRUE,
   path |-> path, clean |-> TRUE, owner |-> p, peak |-> 1, taken |-> FALSE,
   half |-> FALSE]

\* An end of lps_pipe_new, which frees it when it does not succeed (ok).
pipe_end(kind, zeroes, p, ok) ==
  [filenew(kind, NoPath, p) EXCEPT !.clean = zeroes, !.half = ~ok,
                                   !.mem = IF ok THEN @ ELSE "freed"]

IsPipe(f) == file[f].kind \in {"rend", "wend"}

\* Bug form: every close frees the structure.
filefree_always(r) == [r EXCEPT !.mem = "freed", !.taken = TRUE]

\* Bug form: the count does not wrap.
filefree_nowrap(r) ==
  [r EXCEPT !.refs = @ - 1, !.mem = IF r.refs = 1 THEN @ ELSE "freed", !.taken = TRUE]

\* filefree: the last reference leaves the structure, any other frees it; the
\* host descriptor is closed in neither case.  The caller (sys_close) says what
\* becomes of the lock in a structure that was freed.
filefree(r) ==
  LET n == (r.refs - 1) % RefMod
  IN  [r EXCEPT !.refs = n, !.mem = IF n = 0 THEN @ ELSE "freed", !.taken = TRUE]

-----------------------------------------------------------------------------
(* The table *)

fdfget(p, fd) == IF fd \in Slots THEN table[p][fd] ELSE NoFile

Free(p) == {i \in Slots : table[p][i] = NoFile}
SlotsOf(f) == {s \in Procs \X Slots : table[s[1]][s[2]] = f}

\* What goes wrong when a member of f is used that pipe_new does not set.
Misuse(f) == IF file[f].mem = "freed" THEN "dangling"
             ELSE IF ~file[f].clean THEN "uninit" ELSE "no"

\* Bug form: the new slot is not counted.
Assign_nocount(p, fd, f, r) ==
  /\ table' = [table EXCEPT ![p][fd] = f]
  /\ file' = [file EXCEPT ![f] = r]

\* One more slot for f, counted in refs.
Assign(p, fd, f, r) ==
  /\ table' = [table EXCEPT ![p][fd] = f]
  /\ file' = [file EXCEPT ![f] = [r EXCEPT !.refs = (@ + 1) % RefMod]]

\* The lowest free slot for the new structure f; a full table refuses it, and
\* neither the structure nor its host descriptor is given back.
fdfassign(p, f, r) ==
  \/ /\ Free(p) = {}
     /\ file' = Append(file, [r EXCEPT !.taken = TRUE, !.peak = 0])
     /\ UNCHANGED table
  \/ /\ Free(p) # {}
     /\ table' = [table EXCEPT ![p][Min(Free(p))] = f]
     /\ file' = Append(file, [r EXCEPT !.refs = 1])

fdinit(p) == [i \in Slots |-> IF i < NStd THEN (p - 1) * NStd + i + 1 ELSE NoFile]

-----------------------------------------------------------------------------
(* Calls in several steps *)

\* pc: where the call stands; n: bytes so far, -1 an error; left: vectors to
\* go; start: the offset pread64 saved (history for the others).
Idle == [pc |-> "idle", op |-> "read", fd |-> 0, left |-> 0, n |-> 0, start |-> 0]

CallRecord ==
  [pc : {"idle", "vec", "seek", "read", "back", "ret"},
   op : {"read", "write", "pread"}, fd : Slots,
   left : 0 .. MaxIov, n : -1 .. MaxIov, start : 0 .. MaxOff]

TypeOK ==
  /\ started \in BOOLEAN
  /\ state \in [Procs -> {"up", "exited"}]
  /\ table \in [Procs -> [Slots -> 0 .. nfiles]]
  /\ nfiles \in 0 .. MaxFiles
  /\ file \in Seq(FileRecord) /\ Len(file) = nfiles
  /\ off \in [FileIds -> 0 .. MaxOff]
  /\ call \in [Procs -> CallRecord]
  /\ \A p \in Procs : cwd[p] \in Path
  /\ \A p \in Procs : where[p] # Astray => Len(where[p]) <= MaxDepth
  /\ wrong \in {"no", "dangling", "uninit", "null", "unlock"}
  /\ blame \in 0 .. nfiles

Init ==
  /\ started = FALSE
  /\ state = [p \in Procs |-> "up"]
  /\ table = [p \in Procs |-> fdinit(p)]
  /\ nfiles = NProc * NStd
  /\ file = [f \in 1 .. NProc * NStd |->
               filenew("std", NoPath, (f - 1) \div NStd + 1)]
  /\ off = [f \in FileIds |-> 0]
  /\ call = [p \in Procs |-> Idle]
  /\ cwd = [p \in Procs |-> NoPath]
  /\ where = [p \in Procs |-> <<>>]
  /\ wrong = "no" /\ blame = NoFile

Ready(p) ==
  wrong = "no" /\ started /\ state[p] = "up" /\ call[p].pc = "idle"

\* The runtime runs into undefined behaviour with f: nothing is said of what
\* follows, and only the tables are kept, to say where it came from.
Fault(kind, f) ==
  /\ kind # "no" /\ wrong' = kind /\ blame' = f
  /\ off' = [i \in FileIds |-> 0]
  /\ call' = [p \in Procs |-> Idle]
  /\ cwd' = [p \in Procs |-> NoPath]
  /\ where' = [p \in Procs |-> <<>>]
  /\ UNCHANGED <<started, state, table, file, nfiles>>

-----------------------------------------------------------------------------
(* Set-up by the host program *)

\* The read end goes into the table of "to", then the write end into that of
\* "from".  Both are freed when either slot is taken; in the second case the
\* first slot keeps its pointer.
lps_pipe_new(from, fromfd, to, tofd) ==
  /\ wrong = "no" /\ ~started /\ nfiles + 2 <= MaxFiles
  /\ \E zeroes \in BOOLEAN :
       LET rend == nfiles + 1
           wend == nfiles + 2
           t1   == [table EXCEPT ![to][tofd] = rend]
           Ends(ok) == file \o <<pipe_end("rend", zeroes, to, ok), pipe_end("wend", zeroes, from, ok)>>
       IN  \/ /\ table[to][tofd] # NoFile
              /\ file' = Ends(FALSE) /\ UNCHANGED table
           \/ /\ table[to][tofd] = NoFile /\ t1[from][fromfd] # NoFile
              /\ file' = Ends(FALSE) /\ table' = t1
           \/ /\ table[to][tofd] = NoFile /\ t1[from][fromfd] = NoFile
              /\ file' = Ends(TRUE) /\ table' = [t1 EXCEPT ![from][fromfd] = wend]
  /\ nfiles' = nfiles + 2
  /\ UNCHANGED <<started, state, off, call, cwd, where, wrong, blame>>

start ==
  /\ wrong = "no" /\ ~started /\ started' = TRUE
  /\ UNCHANGED <<state, table, file, nfiles, off, call, cwd, where, wrong, blame>>

-----------------------------------------------------------------------------
(* openat, close, dup, dup3, exit *)

\* The host opens the path as it stands, whatever the sandbox's directory is.
sys_openat(p, path) ==
  /\ Ready(p) /\ p \in Openers /\ nfiles < MaxFiles
  /\ nfiles' = nfiles + 1
  /\ fdfassign(p, nfiles + 1, filenew("opened", path, p))
  /\ UNCHANGED <<started, state, off, call, cwd, where, wrong, blame>>

\* filefree gives f->lk_refs back when it returns, from the structure it may
\* just have freed: the write does damage, or goes unnoticed.
sys_close(p, fd) ==
  /\ Ready(p) /\ p \in Openers /\ fdfget(p, fd) # NoFile
  /\ LET f == fdfget(p, fd)
     IN  \/ Fault(Misuse(f), f)
         \/ Misuse(f) = "no" /\ filefree(file[f]).mem = "freed" /\ Fault("unlock", f)
         \/ /\ Misuse(f) = "no"
            /\ table' = [table EXCEPT ![p][fd] = NoFile]
            /\ file' = [file EXCEPT ![f] = filefree(@)]
            /\ UNCHANGED <<started, state, nfiles, off, call, cwd, where, wrong, blame>>

\* newfd = -1 takes the lowest free slot; a slot in use is refused.
fdfdup2(p, oldfd, newfd) ==
  /\ Ready(p) /\ p \in Openers /\ fdfget(p, oldfd) # NoFile
  /\ newfd = -1 => Free(p) # {}
  /\ newfd # -1 => newfd \in Free(p)
  /\ LET f  == fdfget(p, oldfd)
         fd == IF newfd = -1 THEN Min(Free(p)) ELSE newfd
     IN  \/ Fault(Misuse(f), f)
         \/ /\ Misuse(f) = "no"
            /\ Assign(p, fd, f, [file[f] EXCEPT !.peak = Max({@, Cardinality(SlotsOf(f)) + 1})])
            /\ UNCHANGED <<started, state, nfiles, off, call, cwd, where, wrong, blame>>

sys_dup(p, oldfd) == fdfdup2(p, oldfd, -1)
sys_dup3(p, oldfd, newfd) == fdfdup2(p, oldfd, newfd)

\* Bug form: the loop comes to a slot once more after it freed the file.
Meets_again(p, i) ==
  IF \E j \in 0 .. i : table[p][j] = table[p][i] THEN "dangling"
  ELSE Misuse(table[p][i])

\* What fdfree meets in slot i, after the slots below it.
Meets(p, i) ==
  IF \E j \in 0 .. i - 1 : table[p][j] = table[p][i] THEN "dangling"
  ELSE Misuse(table[p][i])

\* Bug form: fdfree frees the structures and closes nothing.
fdfree_noclose(p) ==
  [f \in DOMAIN file |->
     IF \E i \in Slots : table[p][i] = f THEN [file[f] EXCEPT !.mem = "freed"] ELSE file[f]]

fdfree(p) ==
  [f \in DOMAIN file |->
     IF \E i \in Slots : table[p][i] = f
     THEN [file[f] EXCEPT !.open = FALSE, !.mem = "freed"] ELSE file[f]]

sys_exit(p) ==
  /\ Ready(p)
  /\ LET bad == {i \in Slots \ Free(p) : Meets(p, i) # "no"}
     IN  \/ bad # {} /\ Fault(Meets(p, Min(bad)), table[p][Min(bad)])
         \/ /\ bad = {}
            /\ file' = fdfree(p)
            /\ table' = [table EXCEPT ![p] = [i \in Slots |-> NoFile]]
            /\ state' = [state EXCEPT ![p] = "exited"]
            /\ UNCHANGED <<started, nfiles, off, call, cwd, where, wrong, blame>>

-----------------------------------------------------------------------------
(* Reading and writing *)

\* Bound: a sandbox reads, writes and seeks only while it has not changed
\* directory and no file was opened by an absolute path, and changes directory
\* only while no offset is moved; offsets and directories have nothing to do
\* with each other in the code.
Moving(p) ==
  Ready(p) /\ p \in Movers /\ cwd[p] = NoPath /\ \A f \in DOMAIN file : ~file[f].path.abs
Walking(p) == Ready(p) /\ p \in Walkers /\ \A f \in FileIds : off[f] = 0

\* What one sys_read or sys_write of at most one unit can return: the bytes
\* moved, -1 for an error, or the fault it runs into.  A zero size returns
\* before the descriptor is looked at.
Outcomes(p, fd, op) ==
  LET f == table[p][fd]
  IN  {[n |-> 0, bad |-> "no"]} \union
      IF file[f].mem = "freed" THEN {[n |-> -1, bad |-> "dangling"]}
      ELSE LET most == IF IsPipe(f)
                       THEN IF (op = "read") = (file[f].kind = "rend") THEN 1 ELSE -1
                       ELSE Min({1, MaxOff - off[f]})
           IN  [n : -1 .. most, bad : {"no"}]

OffsetOf(p, fd) == off[table[p][fd]]

Advance(p, fd, n) ==
  LET f == table[p][fd]
  IN  off' = IF n > 0 /\ file[f].kind = "opened" THEN [off EXCEPT ![f] = @ + n] ELSE off

\* The call returns n.
Return(p, c, n) ==
  call' = [call EXCEPT ![p] = [c EXCEPT !.pc = "ret", !.left = 0, !.n = n]]

Rw(p, fd, op) ==
  /\ Moving(p) /\ fdfget(p, fd) # NoFile
  /\ \E o \in Outcomes(p, fd, op) :
       \/ Fault(o.bad, table[p][fd])
       \/ /\ o.bad = "no"
          /\ Advance(p, fd, o.n)
          /\ UNCHANGED <<started, state, table, file, nfiles, call, cwd, where, wrong, blame>>

sys_read(p, fd) == Rw(p, fd, "read")
sys_write(p, fd) == Rw(p, fd, "write")

\* The vectors were copied out of the sandbox: MaxIov of them, a shorter list
\* being one whose other vectors are empty.
Vectors(p, fd, op) ==
  /\ Moving(p) /\ fdfget(p, fd) # NoFile
  /\ call' = [call EXCEPT ![p] = [Idle EXCEPT !.pc = "vec", !.op = op, !.fd = fd,
                                              !.left = MaxIov, !.start = OffsetOf(p, fd)]]
  /\ UNCHANGED <<started, state, table, file, nfiles, off, cwd, where, wrong, blame>>

sys_readv(p, fd) == Vectors(p, fd, "read")
sys_writev(p, fd) == Vectors(p, fd, "write")

\* Bug form: the result is that of the last vector.
VecSum_last(c, n) == n

\* total += n, or the error in place of the total.
VecSum(c, n) == IF n < 0 THEN n ELSE c.n + n

\* One round of the loop: a whole sys_read or sys_write.
vec_next(p) ==
  /\ wrong = "no" /\ call[p].pc = "vec"
  /\ LET c == call[p]
     IN  \E o \in Outcomes(p, c.fd, c.op) :
           \/ Fault(o.bad, table[p][c.fd])
           \/ /\ o.bad = "no"
              /\ Advance(p, c.fd, o.n)
              /\ LET n == VecSum(c, o.n)
                 IN  IF o.n < 0 \/ c.left = 1 THEN Return(p, c, n)
                     ELSE call' = [call EXCEPT ![p].n = n, ![p].left = @ - 1]
              /\ UNCHANGED <<started, state, table, file, nfiles, cwd, where, wrong, blame>>

\* pread64 tests read twice and lseek never: a pipe's read end has the first
\* and not the second.  The host may refuse to seek.
sys_pread64(p, fd) ==
  /\ Moving(p) /\ fdfget(p, fd) # NoFile
  /\ LET f == fdfget(p, fd)
     IN  /\ file[f].mem = "live" => file[f].kind # "wend"
         /\ \/ Fault(IF Misuse(f) = "no" /\ IsPipe(f) THEN "null" ELSE Misuse(f), f)
            \/ /\ Misuse(f) = "no" /\ ~IsPipe(f)
               /\ call' = [call EXCEPT ![p] =
                             [Idle EXCEPT !.pc = "seek", !.op = "pread", !.fd = fd,
                                          !.start = off[f]]]
               /\ UNCHANGED <<started, state, table, file, nfiles, off, cwd, where, wrong, blame>>

SetOff(p, o) ==
  LET f == table[p][call[p].fd]
  IN  off' = IF file[f].kind = "opened" THEN [off EXCEPT ![f] = o] ELSE off

pread_seek(p) ==
  /\ wrong = "no" /\ call[p].pc = "seek"
  /\ \E o \in 0 .. MaxOff : SetOff(p, o)
  /\ call' = [call EXCEPT ![p].pc = "read"]
  /\ UNCHANGED <<started, state, table, file, nfiles, cwd, where, wrong, blame>>

\* The read may fail; the result is kept either way.
pread_read(p) ==
  /\ wrong = "no" /\ call[p].pc = "read"
  /\ LET now == OffsetOf(p, call[p].fd)
     IN  \E n \in -1 .. Min({1, MaxOff - now}) :
           /\ SetOff(p, now + Max({n, 0}))
           /\ call' = [call EXCEPT ![p].pc = "back", ![p].n = n]
  /\ UNCHANGED <<started, state, table, file, nfiles, cwd, where, wrong, blame>>

BackTo(p) == call[p].start

pread_back(p) ==
  /\ wrong = "no" /\ call[p].pc = "back"
  /\ SetOff(p, BackTo(p))
  /\ Return(p, call[p], call[p].n)
  /\ UNCHANGED <<started, state, table, file, nfiles, cwd, where, wrong, blame>>

return(p) ==
  /\ wrong = "no" /\ call[p].pc = "ret"
  /\ call' = [call EXCEPT ![p] = Idle]
  /\ UNCHANGED <<started, state, table, file, nfiles, off, cwd, where, wrong, blame>>

\* The host moves the offset, or refuses to.
sys_lseek(p, fd) ==
  /\ Moving(p) /\ fdfget(p, fd) # NoFile
  /\ LET f == fdfget(p, fd)
     IN  \/ Fault(Misuse(f), f)
         \/ /\ Misuse(f) = "no" /\ ~IsPipe(f)
            /\ \E o \in 0 .. MaxOff :
                 off' = IF file[f].kind = "opened" THEN [off EXCEPT ![f] = o] ELSE off
            /\ UNCHANGED <<started, state, table, file, nfiles, call, cwd, where, wrong, blame>>

-----------------------------------------------------------------------------
(* Calls that pass the descriptor on to the host *)

\* The member is looked up in the structure and called when it is there; what
\* the host does with its descriptor changes nothing here.
Pass(p, fd) ==
  /\ Ready(p) /\ fdfget(p, fd) # NoFile
  /\ \/ Fault(Misuse(fdfget(p, fd)), fdfget(p, fd))
     \/ Misuse(fdfget(p, fd)) = "no" /\ UNCHANGED vars

sys_getdents64(p, fd) == Pass(p, fd)
sys_newfstatat(p, fd) == Pass(p, fd)
sys_fchmod(p, fd) == Pass(p, fd)
sys_ftruncate(p, fd) == Pass(p, fd)
sys_fchown(p, fd) == Pass(p, fd)
sys_fsync(p, fd) == Pass(p, fd)
sys_ioctl(p, fd) == Pass(p, fd)

\* mmap of a descriptor reads kfd of what the slot holds, without a look at
\* whether it holds anything.
mmap_kfd(p, fd) ==
  /\ Ready(p)
  /\ LET f == fdfget(p, fd)
     IN  \/ f = NoFile /\ Fault("null", NoFile)
         \/ f # NoFile /\ Fault(Misuse(f), f)
         \/ f # NoFile /\ Misuse(f) = "no" /\ UNCHANGED vars

-----------------------------------------------------------------------------
(* The working directory *)

\* An absolute path is stored as it is given, a relative one joined to the
\* directory there is; before there is one it is refused.
proc_chdir(p, path) ==
  /\ cwk_path_is_absolute(path) \/ cwd[p] # NoPath
  /\ cwd' = [cwd EXCEPT ![p] =
               IF cwk_path_is_absolute(path) THEN path ELSE cwk_path_join(@, path)]

\* The sandbox is now in the directory dir (bound: not too deep a path of its
\* own, wherever it is).
Goes(p, dir) ==
  /\ dir # Astray => Len(dir) <= MaxDepth
  /\ Len(cwd'[p].segs) <= MaxDepth + 1
  /\ where' = [where EXCEPT ![p] = dir]

sys_chdir(p, path) ==
  /\ Walking(p)
  /\ proc_chdir(p, path)
  /\ Goes(p, IF where[p] = Astray /\ ~path.abs THEN Astray ELSE Resolve(where[p], path))
  /\ UNCHANGED <<started, state, table, file, nfiles, off, call, wrong, blame>>

\* fchdir goes by the path the descriptor was opened with, the sandbox means
\* the directory it was opened on.
sys_fchdir(p, fd) ==
  /\ Walking(p) /\ fdfget(p, fd) # NoFile
  /\ LET f == fdfget(p, fd)
     IN  \/ Fault(Misuse(f), f)
         \/ /\ Misuse(f) = "no" /\ file[f].path # NoPath
            /\ proc_chdir(p, file[f].path)
            /\ Goes(p, IF file[f].path.abs THEN Resolve(<<>>, file[f].path) ELSE Astray)
            /\ UNCHANGED <<started, state, table, file, nfiles, off, call, wrong, blame>>

-----------------------------------------------------------------------------
Next ==
  \/ start
  \/ \E from, to \in Procs, i, j \in PipeFds : lps_pipe_new(from, i, to, j)
  \/ \E p \in Procs, path \in OpenPaths : sys_openat(p, path)
  \/ \E p \in Procs, path \in ChdirPaths : sys_chdir(p, path)
  \/ \E p \in Procs : \/ sys_exit(p) \/ vec_next(p) \/ return(p)
                      \/ pread_seek(p) \/ pread_read(p) \/ pread_back(p)
  \/ \E p \in Procs, fd \in -1 .. NOFILE :
       \/ sys_close(p, fd) \/ sys_dup(p, fd) \/ sys_fchdir(p, fd)
       \/ sys_read(p, fd) \/ sys_write(p, fd) \/ sys_readv(p, fd) \/ sys_writev(p, fd)
       \/ sys_lseek(p, fd) \/ sys_pread64(p, fd) \/ sys_getdents64(p, fd)
       \/ sys_newfstatat(p, fd) \/ sys_fchmod(p, fd) \/ sys_ftruncate(p, fd)
       \/ sys_fchown(p, fd) \/ sys_fsync(p, fd) \/ sys_ioctl(p, fd)
       \/ fd >= 0 /\ mmap_kfd(p, fd)
  \/ \E p \in Procs, oldfd \in -1 .. NOFILE, newfd \in -1 .. NOFILE : sys_dup3(p, oldfd, newfd)

Spec == Init /\ [][Next]_vars

-----------------------------------------------------------------------------
(* Properties *)

\* Structures that are in a table and not freed.
Held == {f \in DOMAIN file : SlotsOf(f) # {} /\ file[f].mem = "live"}

\* The files of fdinit and the ends of lps_pipe_new are put into the table
\* without a reference.
Uncounted(f) == file[f].kind # "opened"

\* refs follows the slots through every open, dup and close (fdfassign,
\* fdfdup2, fdfclose, filefree): it is the number of slots that hold the file,
\* one less for a file that entered the table uncounted.
RefsMatchSlots ==
  \A f \in Held : file[f].clean =>
    file[f].refs + (IF Uncounted(f) THEN 1 ELSE 0) = Cardinality(SlotsOf(f))

\* filefree frees on every reference but the last, so a slot can be left with
\* freed memory; that takes a dup before (two for a file that entered
\* uncounted), or an lps_pipe_new that failed half way.  Without those, every
\* slot of every table holds a live structure whose host descriptor is open.
SharedBeforeDangling ==
  \A p \in Procs, i \in Slots :
    LET f == table[p][i]
    IN  f # NoFile => \/ file[f].mem = "live" /\ file[f].open
                      \/ file[f].half
                      \/ file[f].peak >= IF Uncounted(f) THEN 3 ELSE 2

\* The undefined behaviour of the file calls has five sources and no other, and
\* each is a history of the very structure it happens with: it was dup'ed
\* (fdfree closes it once per slot) or its lps_pipe_new failed; pipe_new left
\* its members unset; the call uses a pointer without a test (mmap of an empty
\* slot, pread64 of a pipe); or sys_close met it in any number of slots but the
\* one for which refs drops to zero, and filefree unlocked what it had freed.
FaultHasCause ==
  /\ wrong = "dangling" => file[blame].half \/ file[blame].peak >= 2
  /\ wrong = "uninit" => blame \in Held /\ ~file[blame].clean
  /\ wrong = "null" => blame = NoFile \/ IsPipe(blame)
  /\ wrong = "unlock" => Cardinality(SlotsOf(blame)) # IF Uncounted(blame) THEN 2 ELSE 1

\* fdfree closes the host descriptor, or the pipe end, of every file a sandbox
\* still had when it exited; the ones that stay open are those sys_close took
\* out of its table or a full table refused.
ExitClosesRest ==
  \A f \in DOMAIN file :
    state[file[f].owner] = "exited" /\ file[f].open => file[f].taken \/ file[f].half

\* A readv or writev that returns a number of bytes has moved the file by
\* exactly that many, over all its vectors, and pread64 has not moved it at all, whatever it
\* returns.
OffsetMovesByResult ==
  \A p \in Procs :
    LET c == call[p]
        f == table[p][c.fd]
    IN  c.pc = "ret" /\ file[f].kind = "opened" =>
          /\ c.op = "pread" => OffsetOf(p, c.fd) = c.start
          /\ c.op # "pread" /\ c.n >= 0 => OffsetOf(p, c.fd) = c.start + c.n

\* proc_chdir stores absolute paths as given and joins relative ones: after any
\* sequence of chdir, and of fchdir to descriptors opened by absolute paths, the
\* stored path names the directory the sandbox has walked to.  Past an fchdir
\* to a descriptor opened by a relative path it does not, until the next
\* absolute one: the code takes that path from the directory the sandbox is in
\* now, the host took it from its own.
CwdResolves ==
  \A p \in Procs : where[p] # Astray => Resolve(<<>>, cwd[p]) = where[p]

=============================================================================
