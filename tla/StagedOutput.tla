---------------------------- MODULE StagedOutput ----------------------------
(***************************************************************************)
(* How the command line puts its output in place (src/main.rs).           *)
(*                                                                         *)
(* `compress` ends in write_atomically, `decompress` in                    *)
(* decompress_to_file.  Both resolve the destination, refuse a read-only   *)
(* file, stage the output under a fresh name next to it, copy the          *)
(* permissions, write, and rename; a destination no temporary can stand    *)
(* in for is opened and written straight through.  Each system call is a   *)
(* step here, so other nexcomp processes, other programs, failing calls    *)
(* and a kill come between any two of them.                                *)
(*                                                                         *)
(* Abstractions.  A path is a directory entry; a file is an inode with an  *)
(* owner (whose output it holds), a number of blocks and a mode.  A        *)
(* process creates at most one file, so its inode is named by the process. *)
(* The names "<dst>.part<pid>-<k>" are used by one pid only and are kept   *)
(* apart from the other paths, as slot[p].                                 *)
(***************************************************************************)
EXTENDS Integers

CONSTANTS
  Procs,      \* nexcomp processes, one run each
  Paths,      \* directory entries a command line or another program names
  Files,      \* inodes of files other programs made
  FileAt,     \* the file at a path, where there is one at first
  LinkTo,     \* where a symbolic link at a path points
  InitKinds,  \* what each path may be at first
  InitModes,  \* permissions the files other programs made may have
  InitSlots,  \* staging names: "free", or "taken" by a stale file
  Attempts,   \* staging names tried (64 in the code)
  NBlocks,    \* blocks of output
  Faults,     \* calls that may fail, and "crash"
  EnvActs,    \* what other programs do meanwhile
  EnvSteps,   \* bound on the steps of other programs
  Torn        \* owner of a file two writers mixed

Kinds  == {"absent", "file", "link", "device"}
Modes  == {"open", "private", "readonly"}
Inodes == Procs \cup Files
Good   == NBlocks + 1        \* verdict of an input that decodes and verifies
Final  == {"ok", "err", "dead"}
PCs    == {"idle", "resolve", "readonly", "stage", "create", "perms", "open",
           "write", "commit", "cleanup"} \cup Final

ASSUME ConstantsAssumption ==
  /\ Procs \cap Files = {}
  /\ Torn \notin Inodes
  /\ FileAt \in [Paths -> Files]
  /\ \A m, n \in Paths : FileAt[m] = FileAt[n] => m = n
  /\ LinkTo \in [Paths -> Paths]
  /\ InitKinds \in [Paths -> SUBSET Kinds]
  /\ InitModes \subseteq Modes
  /\ InitSlots \subseteq {"free", "taken"}
  /\ Attempts \in Nat \ {0}
  /\ NBlocks \in Nat \ {0}
  /\ EnvSteps \in Nat

\* A link never points at itself and a chain of links has at most two.
ASSUME LinkAssumption ==
  /\ \A n \in Paths : "link" \in InitKinds[n] => LinkTo[n] # n
  /\ \A n \in Paths : LinkTo[LinkTo[LinkTo[n]]] = LinkTo[LinkTo[n]]

VARIABLES
  kind, file,              \* directory: what each path is, and its inode
  owner, blocks, mode,     \* inodes
  slot,                    \* staging names of each process
  pc, op, arg, verdict,    \* the run: where it is, what it was asked
  dst, attempt, done,      \* its local variables
  direct, out,             \* written straight through?  the open inode
  disturbed,               \* history: others changed the directory meanwhile
  env                      \* steps other programs have left

dirVars  == <<kind, file>>
nodeVars == <<owner, blocks, mode>>
runVars  == <<op, arg, verdict>>
vars == <<dirVars, nodeVars, slot, pc, runVars, dst, attempt, done, direct, out, disturbed, env>>

Goto(p, label) == pc' = [pc EXCEPT ![p] = label]

\* What the kernel opens when it is given path n: every link is followed.
Follow(n) == IF kind[n] = "link" THEN LinkTo[n] ELSE n
EndOfChain(n) == Follow(Follow(n))

\* Started and not ended.
Live(p) == pc[p] \notin {"idle"} \cup Final

\* Another actor than p changed the directory while the others were running.
Disturb(p) == disturbed' = [q \in Procs |-> disturbed[q] \/ (q # p /\ Live(q))]

Visible(i) == \E n \in Paths : kind[n] = "file" /\ file[n] = i

Init ==
  /\ kind \in {k \in [Paths -> Kinds] : \A n \in Paths : k[n] \in InitKinds[n]}
  /\ file = FileAt
  /\ owner = [i \in Inodes |-> i]
  /\ blocks = [i \in Inodes |-> IF i \in Files THEN NBlocks ELSE 0]
  /\ \E m \in [Files -> InitModes] :
       mode = [i \in Inodes |-> IF i \in Files THEN m[i] ELSE "open"]
  /\ slot \in [Procs -> [0..Attempts-1 -> InitSlots]]
  /\ pc = [p \in Procs |-> "idle"]
  /\ op = [p \in Procs |-> "decompress"]
  /\ arg \in [Procs -> Paths]
  /\ verdict = [p \in Procs |-> Good]
  /\ dst = arg
  /\ attempt = [p \in Procs |-> 0]
  /\ done = [p \in Procs |-> 0]
  /\ direct = [p \in Procs |-> FALSE]
  /\ out = [p \in Procs |-> p]
  /\ disturbed = [p \in Procs |-> FALSE]
  /\ env = EnvSteps

---------------------------------------------------------------------------
(* The run.                                                                *)

\* Compressing has all its bytes in memory; an archive fails before block v,
\* or with v = NBlocks on the hash that follows the last block.
Begin(p, o, v) ==
  /\ pc[p] = "idle"
  /\ o = "compress" => v = Good
  /\ op' = [op EXCEPT ![p] = o]
  /\ verdict' = [verdict EXCEPT ![p] = v]
  /\ Goto(p, "resolve")
  /\ UNCHANGED <<dirVars, nodeVars, slot, arg, dst, attempt, done, direct, out, disturbed, env>>

\* No container format: refused before any file is touched.
BeginUnknownFormat(p) ==
  /\ pc[p] = "idle"
  /\ Goto(p, "err")
  /\ UNCHANGED <<dirVars, nodeVars, slot, runVars, dst, attempt, done, direct, out, disturbed, env>>

DestinationUnresolved(n) == n
Destination(n) == Follow(n)

Resolve(p) ==
  /\ pc[p] = "resolve"
  /\ dst' = [dst EXCEPT ![p] = Destination(arg[p])]
  /\ Goto(p, "readonly")
  /\ UNCHANGED <<dirVars, nodeVars, slot, runVars, attempt, done, direct, out, disturbed, env>>

ReadOnly(n) == kind[n] = "file" /\ mode[file[n]] = "readonly"

RefuseReadOnly(p) ==
  /\ pc[p] = "readonly"
  /\ Goto(p, IF ReadOnly(dst[p]) THEN "err" ELSE "stage")
  /\ UNCHANGED <<dirVars, nodeVars, slot, runVars, dst, attempt, done, direct, out, disturbed, env>>

CanStage(n) == kind[n] \in {"file", "absent"}

ChooseStaging(p) ==
  /\ pc[p] = "stage"
  /\ Goto(p, IF CanStage(dst[p]) THEN "create" ELSE "open")
  /\ UNCHANGED <<dirVars, nodeVars, slot, runVars, dst, attempt, done, direct, out, disturbed, env>>

\* A mutant: the candidate name is opened whether or not it exists.
StagedNameReused(p) ==
  /\ pc[p] = "create"
  /\ slot' = [slot EXCEPT ![p][attempt[p]] = "mine"]
  /\ owner' = [owner EXCEPT ![p] = p]
  /\ blocks' = [blocks EXCEPT ![p] = 0]
  /\ mode' = [mode EXCEPT ![p] = "open"]
  /\ Goto(p, "perms")
  /\ UNCHANGED <<attempt, dirVars, runVars, dst, done, direct, out, disturbed, env>>

\* create_new on the next candidate name: taken names are skipped, and after
\* the last the run gives up.
TryNames(p, next, limit) ==
  /\ pc[p] = "create"
  /\ \/ /\ slot[p][attempt[p]] = "free"
        /\ slot' = [slot EXCEPT ![p][attempt[p]] = "mine"]
        /\ owner' = [owner EXCEPT ![p] = p]
        /\ blocks' = [blocks EXCEPT ![p] = 0]
        /\ mode' = [mode EXCEPT ![p] = "open"]
        /\ Goto(p, "perms")
        /\ UNCHANGED attempt
     \/ /\ slot[p][attempt[p]] = "taken"
        /\ IF next < limit
           THEN attempt' = [attempt EXCEPT ![p] = next] /\ UNCHANGED pc
           ELSE Goto(p, "err") /\ UNCHANGED attempt
        /\ UNCHANGED <<nodeVars, slot>>
     \/ /\ "create" \in Faults
        /\ Goto(p, "err")
        /\ UNCHANGED <<nodeVars, slot, attempt>>
  /\ UNCHANGED <<dirVars, runVars, dst, done, direct, out, disturbed, env>>

\* Mutants: the same name is tried again; one name too many is tried.
StagedNameStuck(p)   == TryNames(p, attempt[p], Attempts)
StagedNameTooMany(p) == TryNames(p, attempt[p] + 1, Attempts + 1)
StagedName(p)        == TryNames(p, attempt[p] + 1, Attempts)

\* A mutant: the new file keeps the permissions it was created with.
CopyPermissionsNever(p) ==
  /\ pc[p] = "perms"
  /\ Goto(p, "write")
  /\ UNCHANGED <<dirVars, nodeVars, slot, runVars, dst, attempt, done, direct, out, disturbed, env>>

\* The staged file takes the mode of what is at the destination; a failure
\* to set it is ignored.
CopyPermissions(p) ==
  /\ pc[p] = "perms"
  /\ LET e == EndOfChain(dst[p])
     IN  \/ mode' = [mode EXCEPT ![p] = IF kind[e] = "file" THEN mode[file[e]] ELSE @]
         \/ "chmod" \in Faults /\ UNCHANGED mode
  /\ Goto(p, "write")
  /\ UNCHANGED <<dirVars, owner, blocks, slot, runVars, dst, attempt, done, direct, out, disturbed, env>>

\* No staging: the destination is opened and truncated.  A device keeps its
\* bytes to itself, so they go to the inode of the process, which no path names.
OpenDirect(p) ==
  LET e == EndOfChain(dst[p])
      i == IF kind[e] = "file" THEN file[e] ELSE p
  IN
  /\ pc[p] = "open"
  /\ \/ /\ ReadOnly(e) \/ "create" \in Faults \/ kind[e] = "link"
        /\ Goto(p, "err")
        /\ UNCHANGED <<dirVars, nodeVars, direct, out, disturbed>>
     \/ /\ ~ReadOnly(e) /\ kind[e] # "link"
        /\ owner' = [owner EXCEPT ![i] = p]
        /\ blocks' = [blocks EXCEPT ![i] = 0]
        /\ kind' = [kind EXCEPT ![e] = IF @ = "absent" THEN "file" ELSE @]
        /\ file' = [file EXCEPT ![e] = IF kind[e] = "absent" THEN p ELSE @]
        /\ direct' = [direct EXCEPT ![p] = TRUE]
        /\ out' = [out EXCEPT ![p] = i]
        /\ Goto(p, "write")
        /\ Disturb(p)
        /\ UNCHANGED mode
  /\ UNCHANGED <<slot, runVars, dst, attempt, done, env>>

\* b blocks of p's output are in the open file; a second writer tears it.
Put(p, b) ==
  LET i == out[p] IN
  /\ owner' = [owner EXCEPT ![i] = IF @ = p THEN p ELSE Torn]
  /\ blocks' = [blocks EXCEPT ![i] = b]

\* The buffer is dropped, which still writes what it holds if it can.
DropBuffer(p) ==
  \/ UNCHANGED nodeVars
  \/ /\ \E b \in 0 .. done[p] : (owner[out[p]] = p => b >= blocks[out[p]]) /\ Put(p, b)
     /\ UNCHANGED mode

Fails(p) == Goto(p, IF direct[p] THEN "err" ELSE "cleanup")

\* The next block.  A decoder writes through a buffer, so the file may lag
\* behind; compressed bytes go straight to the file.
WriteBlock(p) ==
  /\ pc[p] = "write" /\ done[p] < NBlocks /\ done[p] < verdict[p]
  /\ done' = [done EXCEPT ![p] = @ + 1]
  /\ \E b \in 0 .. done[p] + 1 :
       /\ IF op[p] = "compress" THEN b = done[p] + 1 ELSE owner[out[p]] = p => b >= blocks[out[p]]
       /\ Put(p, b)
  /\ UNCHANGED <<dirVars, mode, slot, pc, runVars, dst, attempt, direct, out, disturbed, env>>

\* A mutant: the partial output is renamed into place before the error is looked at.
DecodeErrorCommits(p) ==
  /\ pc[p] = "write" /\ done[p] = verdict[p]
  /\ DropBuffer(p)
  /\ Goto(p, IF direct[p] THEN "err" ELSE "commit")
  /\ UNCHANGED <<dirVars, slot, runVars, dst, attempt, done, direct, out, disturbed, env>>

\* The input turns out to be corrupt, at a block or at the final hash.
DecodeError(p) ==
  /\ pc[p] = "write" /\ done[p] = verdict[p]
  /\ DropBuffer(p)
  /\ Fails(p)
  /\ UNCHANGED <<dirVars, slot, runVars, dst, attempt, done, direct, out, disturbed, env>>

WriteError(p) ==
  /\ pc[p] = "write" /\ "write" \in Faults
  /\ DropBuffer(p)
  /\ Fails(p)
  /\ UNCHANGED <<dirVars, slot, runVars, dst, attempt, done, direct, out, disturbed, env>>

\* A mutant: the flush's result is not waited for.
FlushDropped(p) ==
  /\ pc[p] = "write" /\ done[p] = NBlocks /\ verdict[p] = Good
  /\ DropBuffer(p)
  /\ Goto(p, IF direct[p] THEN "ok" ELSE "commit")
  /\ UNCHANGED <<dirVars, slot, runVars, dst, attempt, done, direct, out, disturbed, env>>

\* Everything is decoded and verified: the buffer is emptied and the file closed.
Flush(p) ==
  /\ pc[p] = "write" /\ done[p] = NBlocks /\ verdict[p] = Good
  /\ Put(p, NBlocks)
  /\ Goto(p, IF direct[p] THEN "ok" ELSE "commit")
  /\ UNCHANGED <<dirVars, mode, slot, runVars, dst, attempt, done, direct, out, disturbed, env>>

\* A mutant: a rename that fails leaves the staged file where it is.
RenameLeaves(p) ==
  /\ pc[p] = "commit"
  /\ \/ /\ kind' = [kind EXCEPT ![dst[p]] = "file"]
        /\ file' = [file EXCEPT ![dst[p]] = p]
        /\ slot' = [slot EXCEPT ![p][attempt[p]] = "free"]
        /\ Goto(p, "ok")
        /\ Disturb(p)
     \/ /\ "rename" \in Faults
        /\ Goto(p, "err")
        /\ UNCHANGED <<dirVars, slot, disturbed>>
  /\ UNCHANGED <<nodeVars, runVars, dst, attempt, done, direct, out, env>>

Rename(p) ==
  /\ pc[p] = "commit"
  /\ \/ /\ kind' = [kind EXCEPT ![dst[p]] = "file"]
        /\ file' = [file EXCEPT ![dst[p]] = p]
        /\ slot' = [slot EXCEPT ![p][attempt[p]] = "free"]
        /\ Goto(p, "ok")
        /\ Disturb(p)
     \/ /\ "rename" \in Faults
        /\ Goto(p, "cleanup")
        /\ UNCHANGED <<dirVars, slot, disturbed>>
  /\ UNCHANGED <<nodeVars, runVars, dst, attempt, done, direct, out, env>>

\* The staged file is removed; that it could not be is not reported.
Remove(p) ==
  /\ pc[p] = "cleanup"
  /\ \/ slot' = [slot EXCEPT ![p][attempt[p]] = "free"]
     \/ "unlink" \in Faults /\ UNCHANGED slot
  /\ Goto(p, "err")
  /\ UNCHANGED <<dirVars, nodeVars, runVars, dst, attempt, done, direct, out, disturbed, env>>

\* Killed: nothing of it runs any more, and what its buffer held is lost.
Crash(p) ==
  /\ "crash" \in Faults /\ Live(p)
  /\ Goto(p, "dead")
  /\ UNCHANGED <<dirVars, nodeVars, slot, runVars, dst, attempt, done, direct, out, disturbed, env>>

---------------------------------------------------------------------------
(* Other programs.                                                         *)

Meddle(act) ==
  /\ act \in EnvActs /\ env > 0
  /\ env' = env - 1
  /\ disturbed' = [q \in Procs |-> disturbed[q] \/ Live(q)]
  /\ UNCHANGED <<slot, pc, runVars, dst, attempt, done, direct, out>>

EnvChmod(n, m) ==
  /\ Meddle("chmod")
  /\ kind[n] = "file" /\ mode[file[n]] # m
  /\ mode' = [mode EXCEPT ![file[n]] = m]
  /\ UNCHANGED <<dirVars, owner, blocks>>

EnvRemove(n) ==
  /\ Meddle("remove")
  /\ kind[n] # "absent"
  /\ kind' = [kind EXCEPT ![n] = "absent"]
  /\ UNCHANGED <<file, nodeVars>>

\* A new file of another program, moved over whatever the path was.
EnvReplace(n, i) ==
  /\ Meddle("replace")
  /\ ~Visible(i) /\ \A q \in Procs : out[q] # i
  /\ kind' = [kind EXCEPT ![n] = "file"]
  /\ file' = [file EXCEPT ![n] = i]
  /\ owner' = [owner EXCEPT ![i] = i]
  /\ blocks' = [blocks EXCEPT ![i] = NBlocks]
  /\ UNCHANGED mode

EnvLink(n) ==
  /\ Meddle("link")
  /\ kind[n] = "absent" /\ LinkTo[n] # n
  /\ kind' = [kind EXCEPT ![n] = "link"]
  /\ UNCHANGED <<file, nodeVars>>

---------------------------------------------------------------------------
Step(p) ==
  \/ Resolve(p) \/ RefuseReadOnly(p) \/ ChooseStaging(p) \/ StagedName(p)
  \/ CopyPermissions(p) \/ OpenDirect(p) \/ WriteBlock(p) \/ DecodeError(p)
  \/ WriteError(p) \/ Flush(p) \/ Rename(p) \/ Remove(p)

Start(p) ==
  \/ \E o \in {"compress", "decompress"}, v \in 0..Good : Begin(p, o, v)
  \/ BeginUnknownFormat(p)

Env ==
  \E n \in Paths :
    \/ \E m \in InitModes : EnvChmod(n, m)
    \/ EnvRemove(n)
    \/ \E i \in Files : EnvReplace(n, i)
    \/ EnvLink(n)

Next ==
  \/ \E p \in Procs : Start(p) \/ Step(p) \/ Crash(p)
  \/ Env

\* A run that has started is scheduled until it ends; nobody has to start one.
Fairness == \A p \in Procs : WF_vars(Step(p))

Spec == Init /\ [][Next]_vars /\ Fairness
---------------------------------------------------------------------------
(* Properties.                                                             *)

\* Types of all variables.
TypeOK ==
  /\ kind \in [Paths -> Kinds] /\ file \in [Paths -> Inodes]
  /\ owner \in [Inodes -> Inodes \cup {Torn}] /\ blocks \in [Inodes -> 0..NBlocks]
  /\ mode \in [Inodes -> Modes]
  /\ slot \in [Procs -> [0..Attempts-1 -> {"free", "taken", "mine"}]]
  /\ pc \in [Procs -> PCs] /\ op \in [Procs -> {"compress", "decompress"}]
  /\ arg \in [Procs -> Paths] /\ verdict \in [Procs -> 0..Good]
  /\ dst \in [Procs -> Paths] /\ attempt \in [Procs -> 0..Attempts-1]
  /\ done \in [Procs -> 0..NBlocks] /\ direct \in [Procs -> BOOLEAN]
  /\ out \in [Procs -> Inodes] /\ disturbed \in [Procs -> BOOLEAN]
  /\ env \in 0..EnvSteps

WrittenThrough(i) == \E q \in Procs : direct[q] /\ out[q] = i

\* Whole: another program's file as it was, or all of the verified output of
\* a run that succeeded.
Whole(i) ==
  /\ owner[i] = i /\ blocks[i] = NBlocks
  /\ i \in Procs => pc[i] = "ok" /\ verdict[i] = Good

\* Whatever the interleaving of runs, failing calls, kills and other programs,
\* a file that can be read at a path is whole, or is one that a run writes
\* straight through (main.rs: decompress_to_file, write_atomically).
DestinationWhole ==
  \A n \in Paths : kind[n] = "file" => WrittenThrough(file[n]) \/ Whole(file[n])

\* What reading a directory entry gives.
Entry(n) == IF kind[n] = "file" THEN <<owner[file[n]], blocks[file[n]]>> ELSE <<kind[n], 0>>

\* A reader of any path sees it change only when another program changes it,
\* when a run writes straight through, or once, at the rename of a run, to all
\* of that run's output: never a truncated, growing or missing file between.
ReadersSeeOneStep ==
  [][\A n \in Paths : Entry(n)' # Entry(n) =>
       \/ env' # env
       \/ \E q \in Procs : direct'[q]
       \/ \E p \in Procs : pc[p] = "commit" /\ pc'[p] = "ok" /\ dst[p] = n /\ Entry(n)' = <<p, NBlocks>>]_vars

\* "Never leave a half-written or unverified file behind": a run that ended by
\* itself has no staged file left, whichever call failed, as long as removing
\* one works.
NoLitter ==
  \A p \in Procs, k \in 0..Attempts-1 : pc[p] \in {"ok", "err"} => slot[p][k] # "mine"

\* A stale temporary that is already there is neither written nor removed.
ForeignUntouched ==
  [][\A p \in Procs, k \in 0..Attempts-1 : slot[p][k] = "taken" => slot'[p][k] = "taken"]_vars

\* If nobody touched the directory since the run began, what its rename
\* replaces is a plain file its owner may write, with the same permissions,
\* or nothing at all; and a reader that follows the name the user typed, link
\* and all, then finds the output.
UndisturbedReplacement ==
  [][\A p \in Procs : (pc[p] = "commit" /\ pc'[p] = "ok" /\ ~disturbed[p]) =>
       /\ kind[dst[p]] \in {"file", "absent"}
       /\ kind[dst[p]] = "file" => mode[file[dst[p]]] # "readonly" /\ mode'[p] = mode[file[dst[p]]]
       /\ kind[arg[p]] = "link" => kind'[arg[p]] = "link"
       /\ EndOfChain(arg[p])' = dst[p]]_vars

\* A decode that fails leaves nothing of its output at any path: "a symlinked
\* destination is followed to the file it names, which stays intact when a
\* decode fails" (CHANGELOG.md).
FailedDecodeIntact ==
  \A p \in Procs : pc[p] = "err" => \A n \in Paths : kind[n] = "file" => owner[file[n]] # p

\* A file made private stays private when output is restored over it by a run
\* nobody disturbs (the comment of staged_file).
PrivateStaysPrivate ==
  [][\A p \in Procs : (pc[p] = "commit" /\ pc'[p] = "ok" /\ ~disturbed[p]) =>
       (kind[dst[p]] = "file" /\ mode[file[dst[p]]] = "private" => mode'[p] = "private")]_vars

\* Every run that starts ends.
Terminates == \A p \in Procs : (pc[p] # "idle") ~> (pc[p] \in Final)

\* What a run has come to, for the abstract specification.
Outcome(p) == IF pc[p] \in Final THEN pc[p] ELSE "pending"
WholeOutput(p) == <<p, NBlocks>>
Abs == INSTANCE AtomicReplace WITH
  Output <- WholeOutput, shown <- [n \in Paths |-> Entry(n)], outcome <- [p \in Procs |-> Outcome(p)]

\* Where no destination is written straight through and no other program
\* interferes, runs replace files atomically.
ReplacesAtomically == Abs!Spec
=============================================================================
