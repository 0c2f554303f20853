------------------------- MODULE StagedOutputProofs -------------------------
(***************************************************************************)
(* Proofs about StagedOutput for any number of runs, paths, blocks and     *)
(* staging names, any failing calls and any interference.                  *)
(***************************************************************************)
EXTENDS StagedOutput, TLAPS

USE DEF dirVars, nodeVars, runVars, Goto

\* What the constants are, in the form the steps below need.
LEMMA Constants ==
  /\ NBlocks \in Nat /\ NBlocks > 0 /\ Attempts \in Nat /\ Attempts > 0 /\ EnvSteps \in Nat
  /\ Good = NBlocks + 1 /\ Good \in 0..Good
  /\ 0 \in 0..NBlocks /\ NBlocks \in 0..NBlocks /\ 0 \in 0..Attempts-1 /\ EnvSteps \in 0..EnvSteps
  /\ Inodes = Procs \cup Files /\ Procs \cap Files = {} /\ Torn \notin Inodes
  /\ FileAt \in [Paths -> Files] /\ LinkTo \in [Paths -> Paths] /\ InitModes \subseteq Modes
  /\ InitSlots \subseteq {"free", "taken"}
  /\ InitKinds \in [Paths -> SUBSET Kinds]
BY ConstantsAssumption DEF ConstantsAssumption, Good, Inodes

\* Opening the destination is done to a path, and to its file or the run's own.
LEMMA ChainInPaths == ASSUME TypeOK, NEW n \in Paths PROVE EndOfChain(n) \in Paths
BY Constants DEF EndOfChain, Follow, TypeOK

\* Writing b blocks keeps the inodes well typed.
LEMMA PutTypes ==
  ASSUME TypeOK, NEW p \in Procs, NEW b \in 0..NBlocks, Put(p, b)
  PROVE  owner' \in [Inodes -> Inodes \cup {Torn}] /\ blocks' \in [Inodes -> 0..NBlocks]
BY Constants DEF Put, TypeOK

\* Dropping what was not flushed keeps the types.
LEMMA DropTypes ==
  ASSUME TypeOK, NEW p \in Procs, DropBuffer(p)
  PROVE  /\ owner' \in [Inodes -> Inodes \cup {Torn}] /\ blocks' \in [Inodes -> 0..NBlocks]
         /\ mode' = mode
<1>1. CASE UNCHANGED nodeVars
  BY <1>1 DEF TypeOK
<1>2. ASSUME NEW b \in 0..done[p], Put(p, b), UNCHANGED mode PROVE
         /\ owner' \in [Inodes -> Inodes \cup {Torn}] /\ blocks' \in [Inodes -> 0..NBlocks]
         /\ mode' = mode
  <2>1. b \in 0..NBlocks
    BY Constants DEF TypeOK
  <2> QED
    BY <1>2, <2>1, PutTypes
<1> QED
  BY <1>1, <1>2 DEF DropBuffer

\* Starting a run.
LEMMA StartTypes == ASSUME TypeOK, NEW p \in Procs, Start(p) PROVE TypeOK'
<1> USE DEF TypeOK
<1>1. ASSUME NEW o \in {"compress", "decompress"}, NEW v \in 0..Good, Begin(p, o, v) PROVE TypeOK'
  BY <1>1 DEF Begin, PCs
<1>2. CASE BeginUnknownFormat(p)
  BY <1>2 DEF BeginUnknownFormat, PCs, Final
<1> QED
  BY <1>1, <1>2 DEF Start

\* The steps that settle where the output goes.
LEMMA PlaceTypes ==
  ASSUME TypeOK, NEW p \in Procs,
         Resolve(p) \/ RefuseReadOnly(p) \/ ChooseStaging(p) \/ CopyPermissions(p)
  PROVE  TypeOK'
<1> USE DEF TypeOK
<1>1. CASE Resolve(p)
  BY <1>1, Constants DEF Resolve, Destination, Follow, PCs
<1>2. CASE RefuseReadOnly(p)
  BY <1>2 DEF RefuseReadOnly, PCs, Final
<1>3. CASE ChooseStaging(p)
  BY <1>3 DEF ChooseStaging, PCs
<1>4. CASE CopyPermissions(p)
  <2>1. mode' \in [Inodes -> Modes]
    <3>1. CASE UNCHANGED mode
      BY <3>1
    <3>2. CASE mode' = [mode EXCEPT ![p] = IF kind[EndOfChain(dst[p])] = "file"
                                           THEN mode[file[EndOfChain(dst[p])]] ELSE @]
      BY <3>2, ChainInPaths, Constants
    <3> QED
      BY <1>4, <3>1, <3>2 DEF CopyPermissions
  <2> QED
    BY <1>4, <2>1 DEF CopyPermissions, PCs
<1> QED
  BY <1>1, <1>2, <1>3, <1>4

\* Creating the staged file, or failing to.
LEMMA StagedNameTypes == ASSUME TypeOK, NEW p \in Procs, StagedName(p) PROVE TypeOK'
<1>0. pc' \in [Procs -> PCs]
  <2>1. pc' = [pc EXCEPT ![p] = "perms"] \/ pc' = [pc EXCEPT ![p] = "err"] \/ pc' = pc
    BY DEF StagedName, TryNames
  <2>2. "perms" \in PCs /\ "err" \in PCs
    BY DEF PCs, Final
  <2> QED
    BY <2>1, <2>2 DEF TypeOK
<1> USE Constants DEF TypeOK
<1>1. CASE slot[p][attempt[p]] = "free" /\ slot' = [slot EXCEPT ![p][attempt[p]] = "mine"]
           /\ owner' = [owner EXCEPT ![p] = p] /\ blocks' = [blocks EXCEPT ![p] = 0]
           /\ mode' = [mode EXCEPT ![p] = "open"] /\ UNCHANGED attempt
  <2>1. slot' \in [Procs -> [0..Attempts-1 -> {"free", "taken", "mine"}]]
    BY <1>1
  <2>2. owner' \in [Inodes -> Inodes \cup {Torn}] /\ blocks' \in [Inodes -> 0..NBlocks] /\ mode' \in [Inodes -> Modes]
    BY <1>1 DEF Modes
  <2> QED
    BY <1>0, <1>1, <2>1, <2>2 DEF StagedName, TryNames
<1>2. CASE UNCHANGED <<nodeVars, slot>> /\ attempt' \in [Procs -> 0..Attempts-1]
  BY <1>0, <1>2 DEF StagedName, TryNames
<1>3. ASSUME attempt[p] + 1 < Attempts PROVE [attempt EXCEPT ![p] = @ + 1] \in [Procs -> 0..Attempts-1]
  BY <1>3
<1> QED
  BY <1>1, <1>2, <1>3 DEF StagedName, TryNames

\* Opening the destination itself.
LEMMA OpenDirectTypes == ASSUME TypeOK, NEW p \in Procs, OpenDirect(p) PROVE TypeOK'
<1> DEFINE e == EndOfChain(dst[p])
           i == IF kind[e] = "file" THEN file[e] ELSE p
<1> USE Constants DEF TypeOK
<1>1. e \in Paths /\ i \in Inodes
  BY ChainInPaths
<1>2. CASE pc' = [pc EXCEPT ![p] = "err"] /\ UNCHANGED <<dirVars, nodeVars, direct, out, disturbed>>
  BY <1>2 DEF OpenDirect, PCs, Final
<1>3. CASE /\ owner' = [owner EXCEPT ![i] = p] /\ blocks' = [blocks EXCEPT ![i] = 0]
           /\ kind' = [kind EXCEPT ![e] = IF @ = "absent" THEN "file" ELSE @]
           /\ file' = [file EXCEPT ![e] = IF kind[e] = "absent" THEN p ELSE @]
           /\ direct' = [direct EXCEPT ![p] = TRUE] /\ out' = [out EXCEPT ![p] = i]
           /\ pc' = [pc EXCEPT ![p] = "write"] /\ Disturb(p) /\ UNCHANGED mode
  <2> HIDE DEF e, i
  <2>1. owner' \in [Inodes -> Inodes \cup {Torn}] /\ blocks' \in [Inodes -> 0..NBlocks]
    BY <1>1, <1>3
  <2>2. kind' \in [Paths -> Kinds] /\ file' \in [Paths -> Inodes]
    BY <1>1, <1>3 DEF Kinds
  <2>3. disturbed' \in [Procs -> BOOLEAN]
    BY <1>3 DEF Disturb, Live
  <2>4. pc' \in [Procs -> PCs]
    BY <1>3 DEF PCs
  <2>5. direct' \in [Procs -> BOOLEAN] /\ out' \in [Procs -> Inodes]
    BY <1>1, <1>3
  <2> QED
    BY <1>3, <2>1, <2>2, <2>3, <2>4, <2>5 DEF OpenDirect
<1> QED
  BY <1>2, <1>3 DEF OpenDirect

\* Writing the output.
LEMMA WriteTypes ==
  ASSUME TypeOK, NEW p \in Procs, WriteBlock(p) \/ DecodeError(p) \/ WriteError(p) \/ Flush(p)
  PROVE  TypeOK'
<1> USE Constants
<1>1. CASE WriteBlock(p)
  <2>1. PICK b \in 0..done[p]+1 : Put(p, b)
    BY <1>1 DEF WriteBlock
  <2>a. done[p] + 1 \in 0..NBlocks /\ done \in [Procs -> 0..NBlocks]
    BY <1>1 DEF WriteBlock, TypeOK
  <2>2. b \in 0..NBlocks /\ [done EXCEPT ![p] = @ + 1] \in [Procs -> 0..NBlocks]
    BY <2>a
  <2> QED
    BY <1>1, <2>1, <2>2, PutTypes DEF WriteBlock, TypeOK
<1>2. CASE DecodeError(p) \/ WriteError(p)
  <2>1. pc' \in [Procs -> PCs]
    BY <1>2, ZenonT(60) DEF DecodeError, WriteError, Fails, TypeOK, PCs, Final
  <2>2. DropBuffer(p)
    BY <1>2 DEF DecodeError, WriteError
  <2> QED
    BY <1>2, <2>1, <2>2, DropTypes DEF DecodeError, WriteError, TypeOK
<1>3. CASE Flush(p)
  <2>1. pc' \in [Procs -> PCs]
    BY <1>3 DEF Flush, TypeOK, PCs, Final
  <2> QED
    BY <1>3, <2>1, PutTypes DEF Flush, TypeOK
<1> QED
  BY <1>1, <1>2, <1>3

\* Putting the output in place, removing it, and a kill.
LEMMA EndTypes ==
  ASSUME TypeOK, NEW p \in Procs, Rename(p) \/ Remove(p) \/ Crash(p)
  PROVE  TypeOK'
<1> USE Constants DEF TypeOK
<1>0. {"ok", "err", "dead", "cleanup"} \subseteq PCs
  BY DEF PCs, Final
<1>1. CASE Rename(p)
  <2>1. CASE "rename" \in Faults /\ pc' = [pc EXCEPT ![p] = "cleanup"] /\ UNCHANGED <<dirVars, slot, disturbed>>
    BY <1>0, <1>1, <2>1 DEF Rename
  <2>2. CASE /\ kind' = [kind EXCEPT ![dst[p]] = "file"] /\ file' = [file EXCEPT ![dst[p]] = p]
             /\ slot' = [slot EXCEPT ![p][attempt[p]] = "free"]
             /\ pc' = [pc EXCEPT ![p] = "ok"] /\ Disturb(p)
    <3>1. kind' \in [Paths -> Kinds] /\ file' \in [Paths -> Inodes]
      BY <2>2 DEF Kinds
    <3>2. slot' \in [Procs -> [0..Attempts-1 -> {"free", "taken", "mine"}]]
      BY <2>2
    <3>3. disturbed' \in [Procs -> BOOLEAN]
      BY <2>2 DEF Disturb, Live
    <3> QED
      BY <1>0, <1>1, <2>2, <3>1, <3>2, <3>3 DEF Rename
  <2> QED
    BY <1>1, <2>1, <2>2 DEF Rename
<1>2. CASE Remove(p)
  <2>1. [slot EXCEPT ![p][attempt[p]] = "free"] \in [Procs -> [0..Attempts-1 -> {"free", "taken", "mine"}]]
    OBVIOUS
  <2>2. slot' \in [Procs -> [0..Attempts-1 -> {"free", "taken", "mine"}]]
    BY <1>2, <2>1 DEF Remove
  <2> QED
    BY <1>0, <1>2, <2>2 DEF Remove
<1>3. CASE Crash(p)
  BY <1>0, <1>3 DEF Crash
<1> QED
  BY <1>1, <1>2, <1>3

\* Other programs.
LEMMA EnvTypes == ASSUME TypeOK, Env PROVE TypeOK'
<1> USE Constants DEF TypeOK
<1> PICK n \in Paths : \/ \E m \in InitModes : EnvChmod(n, m)
                       \/ EnvRemove(n)
                       \/ \E i \in Files : EnvReplace(n, i)
                       \/ EnvLink(n)
  BY DEF Env
<1>1. ASSUME NEW act, Meddle(act) PROVE disturbed' \in [Procs -> BOOLEAN] /\ env' \in 0..EnvSteps
  BY <1>1 DEF Meddle, Live
<1>2. ASSUME NEW m \in InitModes, EnvChmod(n, m) PROVE TypeOK'
  BY <1>1, <1>2 DEF EnvChmod, Meddle
<1>3. CASE EnvRemove(n)
  BY <1>1, <1>3 DEF EnvRemove, Meddle, Kinds
<1>4. ASSUME NEW i \in Files, EnvReplace(n, i) PROVE TypeOK'
  BY <1>1, <1>4 DEF EnvReplace, Meddle, Kinds
<1>5. CASE EnvLink(n)
  BY <1>1, <1>5 DEF EnvLink, Meddle, Kinds
<1> QED
  BY <1>2, <1>3, <1>4, <1>5

\* The first state is well typed.
LEMMA InitTypes == Init => TypeOK
<1> SUFFICES ASSUME Init PROVE TypeOK
  OBVIOUS
<1> USE Constants DEF Init
<1>1. kind \in [Paths -> Kinds] /\ file \in [Paths -> Inodes]
  OBVIOUS
<1>2. owner \in [Inodes -> Inodes \cup {Torn}] /\ blocks \in [Inodes -> 0..NBlocks]
  OBVIOUS
<1>3. mode \in [Inodes -> Modes]
  BY DEF Modes
<1>4. slot \in [Procs -> [0..Attempts-1 -> {"free", "taken", "mine"}]]
  <2>1. slot \in [Procs -> [0..Attempts-1 -> InitSlots]]
    OBVIOUS
  <2> HIDE DEF Init
  <2>2. ASSUME NEW q \in Procs PROVE slot[q] \in [0..Attempts-1 -> {"free", "taken", "mine"}]
    <3>1. slot[q] \in [0..Attempts-1 -> InitSlots]
      BY <2>1
    <3> QED
      BY <3>1
  <2> QED
    BY <2>1, <2>2
<1>5. pc \in [Procs -> PCs] /\ op \in [Procs -> {"compress", "decompress"}] /\ verdict \in [Procs -> 0..Good]
  BY DEF PCs
<1>6. arg \in [Procs -> Paths] /\ dst \in [Procs -> Paths] /\ out \in [Procs -> Inodes]
  OBVIOUS
<1>7. attempt \in [Procs -> 0..Attempts-1] /\ done \in [Procs -> 0..NBlocks] /\ env \in 0..EnvSteps
      /\ direct \in [Procs -> BOOLEAN] /\ disturbed \in [Procs -> BOOLEAN]
  OBVIOUS
<1> QED
  BY <1>1, <1>2, <1>3, <1>4, <1>5, <1>6, <1>7 DEF TypeOK

\* Every reachable state is well typed.
THEOREM TypeCorrect == Spec => []TypeOK
<1>1. TypeOK /\ [Next]_vars => TypeOK'
  <2> SUFFICES ASSUME TypeOK, [Next]_vars PROVE TypeOK'
    OBVIOUS
  <2>1. CASE UNCHANGED vars
    BY <2>1 DEF vars, TypeOK
  <2>2. ASSUME NEW p \in Procs, Start(p) \/ Step(p) \/ Crash(p) PROVE TypeOK'
    BY <2>2, StartTypes, PlaceTypes, StagedNameTypes, OpenDirectTypes, WriteTypes, EndTypes DEF Step
  <2>3. CASE Env
    BY <2>3, EnvTypes
  <2> QED
    BY <2>1, <2>2, <2>3 DEF Next
<1> QED
  BY <1>1, InitTypes, PTL DEF Spec

---------------------------------------------------------------------------
(* DestinationWhole.  On its own it is not inductive: it says nothing of   *)
(* the files no path shows yet.                                            *)

\* A staged file is the run's own until the run has succeeded: no path shows
\* it and nobody else has it open.  A file other programs made changes only
\* under a run that writes it straight through.
Staging  == \A p \in Procs : ~direct[p] => out[p] = p
Early    == \A p \in Procs : direct[p] => pc[p] \in {"write"} \cup Final
Hidden   == \A p \in Procs : Visible(p) => (direct[p] /\ out[p] = p) \/ (~direct[p] /\ pc[p] = "ok")
Through  == \A p, q \in Procs : direct[q] /\ out[q] = p /\ q # p => direct[p] \/ pc[p] = "ok"
Written  == \A p \in Procs : ~direct[p] /\ pc[p] \in {"perms", "write", "commit", "ok"} =>
              WrittenThrough(p) \/ owner[p] = p
Complete == \A p \in Procs : ~direct[p] /\ pc[p] \in {"commit", "ok"} =>
              verdict[p] = Good /\ (WrittenThrough(p) \/ blocks[p] = NBlocks)
Foreign  == \A i \in Files : WrittenThrough(i) \/ (owner[i] = i /\ blocks[i] = NBlocks)

IInv == TypeOK /\ Staging /\ Early /\ Hidden /\ Through /\ Written /\ Complete /\ Foreign

\* The invariant says what the property asks of the files that can be read.
LEMMA InvWhole == IInv => DestinationWhole
<1> SUFFICES ASSUME IInv, NEW n \in Paths, kind[n] = "file"
             PROVE  WrittenThrough(file[n]) \/ Whole(file[n])
  BY DEF DestinationWhole
<1>1. file[n] \in Procs \cup Files
  BY Constants DEF IInv, TypeOK
<1>2. CASE file[n] \in Files
  BY <1>2, Constants DEF IInv, Foreign, Whole
<1>3. CASE file[n] \in Procs
  <2>1. Visible(file[n])
    BY DEF Visible
  <2> QED
    BY <1>3, <2>1 DEF IInv, Hidden, Written, Complete, Whole, WrittenThrough
<1> QED
  BY <1>1, <1>2, <1>3

\* A run that is writing a staged file is alone with it.
LEMMA Alone ==
  ASSUME IInv, NEW p \in Procs, ~direct[p], pc[p] # "ok"
  PROVE  ~Visible(p) /\ out[p] = p /\ \A q \in Procs : q # p => out[q] # p
<1>1. ~Visible(p) /\ out[p] = p
  BY DEF IInv, Hidden, Staging
<1>2. ASSUME NEW q \in Procs, q # p, out[q] = p PROVE FALSE
  BY <1>2 DEF IInv, Staging, Through
<1> QED
  BY <1>1, <1>2

\* Steps that touch no file and bring none into view.
QuietStep(p) ==
  \/ pc'[p] = pc[p] /\ verdict'[p] = verdict[p]
  \/ ~direct[p] /\ pc[p] # "ok" /\ pc'[p] \notin {"perms", "write", "commit", "ok"}
  \/ ~direct[p] /\ pc[p] = "perms" /\ pc'[p] = "write"
  \/ direct[p] /\ pc[p] = "write" /\ pc'[p] \in {"err", "dead"}

\* A step that moves no data and ends nothing keeps the invariant.
LEMMA Quiet ==
  ASSUME IInv, TypeOK', UNCHANGED <<owner, blocks, direct, out>>,
         \A p \in Procs : Visible(p)' => Visible(p),
         \A p \in Procs : QuietStep(p)
  PROVE  IInv'
<1> USE DEF IInv, QuietStep
<1>0. \A i : WrittenThrough(i)' <=> WrittenThrough(i)
  BY DEF WrittenThrough
<1>1. Staging'
  BY DEF Staging
<1>2. Early'
  BY DEF Early, Final
<1>3. Hidden'
  BY DEF Hidden
<1>4. Through'
  BY DEF Through
<1>5. Written'
  BY <1>0 DEF Written
<1>6. Complete'
  BY <1>0 DEF Complete
<1>7. Foreign'
  BY <1>0 DEF Foreign
<1> QED
  BY <1>1, <1>2, <1>3, <1>4, <1>5, <1>6, <1>7

\* Writing to the open file, and moving on.
LEMMA PutStep ==
  ASSUME IInv, TypeOK', NEW p \in Procs, NEW b \in 0..NBlocks, Put(p, b),
         pc[p] = "write", UNCHANGED <<dirVars, verdict, direct, out>>,
         NEW l, pc' = [pc EXCEPT ![p] = l],
         IF direct[p] THEN l \in {"write", "ok", "err"}
                      ELSE \/ l \in {"write", "cleanup"}
                           \/ l = "commit" /\ verdict[p] = Good /\ b = NBlocks
  PROVE  IInv'
<1> USE DEF IInv
<1>0. /\ \A i : WrittenThrough(i)' <=> WrittenThrough(i)
      /\ \A i : Visible(i)' <=> Visible(i)
      /\ pc'[p] = l /\ \A q \in Procs : q # p => pc'[q] = pc[q]
  BY DEF WrittenThrough, Visible, TypeOK
<1>1. Staging' /\ Early'
  BY <1>0 DEF Staging, Early, Final
<1>2. Hidden' /\ Through'
  BY <1>0 DEF Hidden, Through
<1>3. ASSUME NEW i \in Inodes, ~WrittenThrough(i) \/ out[p] # i
      PROVE  (i = p /\ ~direct[p] /\ owner'[i] = (IF owner[p] = p THEN p ELSE Torn) /\ blocks'[i] = b)
             \/ (i # out[p] /\ owner'[i] = owner[i] /\ blocks'[i] = blocks[i])
  <2>1. CASE i = out[p]
    BY <1>3, <2>1 DEF WrittenThrough, Put, TypeOK, Staging
  <2>2. CASE i # out[p]
    BY <2>2 DEF Put, TypeOK
  <2> QED
    BY <2>1, <2>2
<1>4. Written'
  <2> SUFFICES ASSUME NEW q \in Procs, ~direct[q], pc'[q] \in {"perms", "write", "commit", "ok"}, ~WrittenThrough(q)
               PROVE  owner'[q] = q
    BY <1>0 DEF Written
  <2>1. owner[q] = q
    BY <1>0 DEF Written
  <2> QED
    BY <1>3, <2>1, Constants
<1>5. Complete'
  <2> SUFFICES ASSUME NEW q \in Procs, ~direct[q], pc'[q] \in {"commit", "ok"}
               PROVE  verdict[q] = Good /\ (WrittenThrough(q) \/ blocks'[q] = NBlocks)
    BY <1>0 DEF Complete
  <2>1. CASE q = p
    BY <1>0, <1>3, <2>1, Constants DEF Staging
  <2>2. CASE q # p
    BY <1>0, <1>3, <2>2, Constants DEF Complete
  <2> QED
    BY <2>1, <2>2
<1>6. Foreign'
  BY <1>0, <1>3, Constants DEF Foreign
<1> QED
  BY <1>1, <1>2, <1>4, <1>5, <1>6

\* Dropping the buffer is writing some of it, or nothing.
LEMMA DropStep ==
  ASSUME IInv, TypeOK', NEW p \in Procs, DropBuffer(p), pc[p] = "write",
         UNCHANGED <<dirVars, verdict, direct, out>>, Fails(p)
  PROVE  IInv'
<1> DEFINE l == IF direct[p] THEN "err" ELSE "cleanup"
<1>1. pc' = [pc EXCEPT ![p] = l]
  BY DEF Fails
<1>2. CASE UNCHANGED nodeVars
  <2>1. \A q \in Procs : QuietStep(q)
    BY <1>1 DEF QuietStep, IInv, TypeOK
  <2>2. \A q \in Procs : Visible(q)' => Visible(q)
    BY DEF Visible
  <2> QED
    BY <1>2, <2>1, <2>2, Quiet
<1>3. ASSUME NEW b \in 0..done[p], Put(p, b) PROVE IInv'
  <2>1. b \in 0..NBlocks
    BY Constants DEF IInv, TypeOK
  <2>2. CASE direct[p]
    BY <1>1, <1>3, <2>1, <2>2, PutStep
  <2>3. CASE ~direct[p]
    BY <1>1, <1>3, <2>1, <2>3, PutStep
  <2> QED
    BY <2>2, <2>3
<1> QED
  BY <1>2, <1>3 DEF DropBuffer

\* A new temporary is an inode of its own, shown at no path.
LEMMA StagedNameStep == ASSUME IInv, TypeOK', NEW p \in Procs, StagedName(p) PROVE IInv'
<1> USE DEF IInv
<1>0. ~direct[p] /\ pc[p] = "create"
  BY DEF StagedName, TryNames, Early, Final
<1>1. CASE UNCHANGED <<owner, blocks>> /\ (pc' = [pc EXCEPT ![p] = "err"] \/ pc' = pc)
  <2>1. \A q \in Procs : QuietStep(q)
    BY <1>0, <1>1 DEF QuietStep, StagedName, TryNames, TypeOK
  <2>2. \A q \in Procs : Visible(q)' => Visible(q)
    BY DEF Visible, StagedName, TryNames
  <2> QED
    BY <1>1, <2>1, <2>2, Quiet DEF StagedName, TryNames
<1>2. CASE owner' = [owner EXCEPT ![p] = p] /\ blocks' = [blocks EXCEPT ![p] = 0] /\ pc' = [pc EXCEPT ![p] = "perms"]
  <2>0. /\ \A i : WrittenThrough(i)' <=> WrittenThrough(i)
        /\ \A i : Visible(i)' <=> Visible(i)
        /\ UNCHANGED <<direct, out, verdict>>
    BY DEF StagedName, TryNames, WrittenThrough, Visible
  <2>1. /\ pc'[p] = "perms" /\ \A q \in Procs : q # p => pc'[q] = pc[q]
        /\ owner'[p] = p
        /\ \A i \in Inodes : i # p => owner'[i] = owner[i] /\ blocks'[i] = blocks[i]
    BY <1>2, Constants DEF TypeOK
  <2>2. Staging' /\ Early' /\ Hidden' /\ Through'
    BY <1>0, <2>0, <2>1 DEF Staging, Early, Hidden, Through
  <2>3. Written' /\ Complete' /\ Foreign'
    BY <1>0, <2>0, <2>1, Constants DEF Written, Complete, Foreign
  <2> QED
    BY <2>2, <2>3
<1> QED
  BY <1>1, <1>2 DEF StagedName, TryNames

\* Opening the destination itself: from here the run writes through.
LEMMA OpenDirectStep == ASSUME IInv, TypeOK', NEW p \in Procs, OpenDirect(p) PROVE IInv'
<1> DEFINE e == EndOfChain(dst[p])
           i == IF kind[e] = "file" THEN file[e] ELSE p
<1> USE DEF IInv
<1>0. /\ ~direct[p] /\ pc[p] = "open" /\ e \in Paths /\ i \in Inodes
      /\ i # p => Visible(i)
  BY ChainInPaths, Constants DEF OpenDirect, Early, Final, TypeOK, Visible
<1>1. CASE pc' = [pc EXCEPT ![p] = "err"] /\ UNCHANGED <<dirVars, nodeVars, direct, out, disturbed>>
  <2>1. \A q \in Procs : QuietStep(q)
    BY <1>0, <1>1 DEF QuietStep, OpenDirect, TypeOK
  <2>2. \A q \in Procs : Visible(q)' => Visible(q)
    BY <1>1 DEF Visible
  <2> QED
    BY <1>1, <2>1, <2>2, Quiet
<1>2. CASE /\ owner' = [owner EXCEPT ![i] = p] /\ blocks' = [blocks EXCEPT ![i] = 0]
           /\ kind' = [kind EXCEPT ![e] = IF @ = "absent" THEN "file" ELSE @]
           /\ file' = [file EXCEPT ![e] = IF kind[e] = "absent" THEN p ELSE @]
           /\ direct' = [direct EXCEPT ![p] = TRUE] /\ out' = [out EXCEPT ![p] = i]
           /\ pc' = [pc EXCEPT ![p] = "write"]
  <2>0. /\ verdict' = verdict /\ pc'[p] = "write" /\ direct'[p] = TRUE /\ out'[p] = i
        /\ \A q \in Procs : q # p => pc'[q] = pc[q] /\ direct'[q] = direct[q] /\ out'[q] = out[q]
        /\ \A j \in Inodes : j # i => owner'[j] = owner[j] /\ blocks'[j] = blocks[j]
    <3> HIDE DEF e, i
    <3>1. verdict' = verdict
      BY DEF OpenDirect
    <3> QED
      BY <1>2, <3>1 DEF TypeOK
  <2>1. kind[e] # "absent" => kind' = kind /\ file' = file
    <3> HIDE DEF e, i
    <3> QED
      BY <1>0, <1>2 DEF TypeOK
  <2>2. kind[e] = "absent" => i = p /\ \A n \in Paths : n # e => kind'[n] = kind[n] /\ file'[n] = file[n]
    BY <1>0, <1>2 DEF TypeOK
  <2>3. kind[e] = "absent" => file'[e] = p
    <3> HIDE DEF e, i
    <3> QED
      BY <1>0, <1>2 DEF TypeOK
  <2>4. \A q \in Procs : Visible(q)' => Visible(q) \/ (q = p /\ i = p)
    BY <2>1, <2>2, <2>3 DEF Visible
  <2> HIDE DEF e, i
  <2>5. \A j : WrittenThrough(j)' <=> WrittenThrough(j) \/ j = i
    BY <1>0, <2>0 DEF WrittenThrough
  <2>6. ~Visible(p)
    BY <1>0 DEF Hidden
  <2>7. Staging' /\ Early'
    BY <2>0 DEF Staging, Early
  <2>8. Hidden'
    BY <1>0, <2>0, <2>4, <2>6 DEF Hidden
  <2>9. Through'
    <3> SUFFICES ASSUME NEW r \in Procs, NEW q \in Procs, direct'[q], out'[q] = r, q # r
                 PROVE  direct'[r] \/ pc'[r] = "ok"
      BY DEF Through
    <3>1. CASE q = p
      BY <1>0, <2>0, <3>1 DEF Hidden
    <3>2. CASE q # p
      BY <1>0, <2>0, <3>2 DEF Through
    <3> QED
      BY <3>1, <3>2
  <2>10. Written' /\ Complete' /\ Foreign'
    BY <1>0, <2>0, <2>5, Constants DEF Written, Complete, Foreign
  <2> QED
    BY <2>7, <2>8, <2>9, <2>10
<1> QED
  BY <1>1, <1>2 DEF OpenDirect

\* A rename shows an inode that is complete, and that nobody else has open.
LEMMA RenameStep == ASSUME IInv, TypeOK', NEW p \in Procs, Rename(p) PROVE IInv'
<1> USE DEF IInv
<1>0. ~direct[p] /\ pc[p] = "commit" /\ out[p] = p /\ ~WrittenThrough(p)
  <2>1. ~direct[p] /\ pc[p] = "commit"
    BY DEF Rename, Early, Final
  <2> QED
    BY <2>1, Alone DEF WrittenThrough
<1>1. CASE pc' = [pc EXCEPT ![p] = "cleanup"] /\ UNCHANGED dirVars
  <2>1. \A q \in Procs : QuietStep(q)
    BY <1>0, <1>1 DEF QuietStep, Rename, TypeOK
  <2>2. \A q \in Procs : Visible(q)' => Visible(q)
    BY <1>1 DEF Visible
  <2> QED
    BY <1>1, <2>1, <2>2, Quiet DEF Rename
<1>2. CASE /\ kind' = [kind EXCEPT ![dst[p]] = "file"] /\ file' = [file EXCEPT ![dst[p]] = p]
           /\ pc' = [pc EXCEPT ![p] = "ok"]
  <2>0. /\ \A i : WrittenThrough(i)' <=> WrittenThrough(i)
        /\ UNCHANGED <<direct, out, verdict, owner, blocks>>
    BY DEF Rename, WrittenThrough
  <2>1. /\ pc'[p] = "ok" /\ \A q \in Procs : q # p => pc'[q] = pc[q]
    BY <1>2 DEF TypeOK
  <2>2. \A q \in Procs : Visible(q)' => Visible(q) \/ q = p
    BY <1>2 DEF Visible, TypeOK
  <2>3. Staging' /\ Early' /\ Hidden' /\ Through'
    BY <1>0, <2>0, <2>1, <2>2 DEF Staging, Early, Hidden, Through, Final
  <2>4. Written' /\ Complete' /\ Foreign'
    BY <1>0, <2>0, <2>1 DEF Written, Complete, Foreign
  <2> QED
    BY <2>3, <2>4
<1> QED
  BY <1>1, <1>2 DEF Rename

\* Another program writes no inode that is shown or open.
LEMMA EnvStep == ASSUME IInv, TypeOK', Env PROVE IInv'
<1> USE DEF IInv
<1> PICK n \in Paths : \/ \E m \in InitModes : EnvChmod(n, m)
                       \/ EnvRemove(n)
                       \/ \E i \in Files : EnvReplace(n, i)
                       \/ EnvLink(n)
  BY DEF Env
<1>0. UNCHANGED <<pc, verdict, direct, out>> /\ \A q \in Procs : QuietStep(q)
  BY DEF EnvChmod, EnvRemove, EnvReplace, EnvLink, Meddle, QuietStep
<1>1. CASE \/ \E m \in InitModes : EnvChmod(n, m)
           \/ EnvRemove(n) \/ EnvLink(n)
  <2>1. UNCHANGED <<owner, blocks>> /\ \A q \in Procs : Visible(q)' => Visible(q)
    BY <1>1 DEF EnvChmod, EnvRemove, EnvLink, Visible, TypeOK
  <2> QED
    BY <1>0, <2>1, Quiet
<1>2. ASSUME NEW i \in Files, EnvReplace(n, i) PROVE IInv'
  <2>0. \A j : WrittenThrough(j)' <=> WrittenThrough(j)
    BY <1>0 DEF WrittenThrough
  <2>1. /\ owner'[i] = i /\ blocks'[i] = NBlocks
        /\ \A j \in Inodes : j # i => owner'[j] = owner[j] /\ blocks'[j] = blocks[j]
    BY <1>2, Constants DEF EnvReplace, TypeOK
  <2>2. \A q \in Procs : Visible(q)' => Visible(q)
    BY <1>2, Constants, SMTT(30) DEF EnvReplace, Visible, TypeOK
  <2>3. Staging' /\ Early' /\ Hidden' /\ Through'
    BY <1>0, <2>2 DEF Staging, Early, Hidden, Through
  <2>4. Written' /\ Complete' /\ Foreign'
    BY <1>0, <2>0, <2>1, Constants DEF Written, Complete, Foreign
  <2> QED
    BY <2>3, <2>4
<1> QED
  BY <1>1, <1>2

\* The steps that touch no file.
LEMMA QuietSteps ==
  ASSUME IInv, TypeOK', NEW p \in Procs,
         \/ Start(p) \/ Resolve(p) \/ RefuseReadOnly(p) \/ ChooseStaging(p)
         \/ CopyPermissions(p) \/ Remove(p) \/ Crash(p)
  PROVE  IInv'
<1> USE DEF IInv
<1>1. UNCHANGED <<dirVars, owner, blocks, direct, out>>
  BY DEF Start, Begin, BeginUnknownFormat, Resolve, RefuseReadOnly, ChooseStaging,
         CopyPermissions, Remove, Crash
<1>2. \A q \in Procs : Visible(q)' => Visible(q)
  BY <1>1 DEF Visible
<1>3. ASSUME NEW q \in Procs PROVE QuietStep(q)
  <2>1. CASE Start(p)
    <3>1. pc[p] = "idle" /\ ~direct[p]
      BY <2>1 DEF Start, Begin, BeginUnknownFormat, Early, Final
    <3>2. pc' = [pc EXCEPT ![p] = "resolve"] \/ pc' = [pc EXCEPT ![p] = "err"]
      BY <2>1 DEF Start, Begin, BeginUnknownFormat
    <3>3. q # p => verdict'[q] = verdict[q]
      BY <2>1 DEF Start, Begin, BeginUnknownFormat, TypeOK
    <3> QED
      BY <3>1, <3>2, <3>3 DEF QuietStep, TypeOK
  <2>2. CASE Resolve(p) \/ RefuseReadOnly(p) \/ ChooseStaging(p)
    BY <2>2, ZenonT(60) DEF Resolve, RefuseReadOnly, ChooseStaging, QuietStep, TypeOK, Early, Final
  <2>3. CASE CopyPermissions(p) \/ Remove(p)
    BY <2>3 DEF CopyPermissions, Remove, QuietStep, TypeOK, Early, Final
  <2>4. CASE Crash(p)
    BY <2>4 DEF Crash, QuietStep, Live, TypeOK, Early, Final
  <2> QED
    BY <2>1, <2>2, <2>3, <2>4
<1> QED
  BY <1>1, <1>2, <1>3, Quiet

\* A run writes its own inode, or the one it opened directly.
LEMMA WriteStep ==
  ASSUME IInv, TypeOK', NEW p \in Procs, WriteBlock(p) \/ DecodeError(p) \/ WriteError(p) \/ Flush(p)
  PROVE  IInv'
<1>1. CASE WriteBlock(p)
  <2>1. PICK b \in 0..done[p]+1 : Put(p, b)
    BY <1>1 DEF WriteBlock
  <2>2. b \in 0..NBlocks
    BY <1>1, Constants DEF WriteBlock, IInv, TypeOK
  <2>3. pc' = [pc EXCEPT ![p] = "write"]
    BY <1>1 DEF WriteBlock, IInv, TypeOK
  <2> QED
    BY <1>1, <2>1, <2>2, <2>3, PutStep DEF WriteBlock
<1>2. CASE DecodeError(p) \/ WriteError(p)
  BY <1>2, DropStep DEF DecodeError, WriteError
<1>3. CASE Flush(p)
  <2>1. CASE direct[p]
    <3>1. pc' = [pc EXCEPT ![p] = "ok"]
      BY <1>3, <2>1 DEF Flush
    <3> QED
      BY <1>3, <2>1, <3>1, PutStep, Constants DEF Flush
  <2>2. CASE ~direct[p]
    <3>1. pc' = [pc EXCEPT ![p] = "commit"]
      BY <1>3, <2>2 DEF Flush
    <3> QED
      BY <1>3, <2>2, <3>1, PutStep, Constants DEF Flush
  <2> QED
    BY <2>1, <2>2
<1> QED
  BY <1>1, <1>2, <1>3

\* No run has started: nothing is open.
LEMMA InitInv == Init => IInv
<1> SUFFICES ASSUME Init PROVE IInv
  OBVIOUS
<1>1. TypeOK
  BY InitTypes
<1>2. Staging /\ Early /\ Through /\ Written /\ Complete
  BY Constants DEF Init, Staging, Early, Through, Written, Complete
<1>3. Hidden
  BY Constants DEF Init, Hidden, Visible
<1>4. Foreign
  BY Constants DEF Init, Foreign
<1> QED
  BY <1>1, <1>2, <1>3, <1>4 DEF IInv

\* No step breaks the invariant.
LEMMA InvStep == IInv /\ TypeOK' /\ [Next]_vars => IInv'
<1> SUFFICES ASSUME IInv, TypeOK', [Next]_vars PROVE IInv'
  OBVIOUS
<1>1. CASE UNCHANGED vars
  <2>1. \A q \in Procs : QuietStep(q) /\ (Visible(q)' => Visible(q))
    BY <1>1 DEF vars, QuietStep, Visible
  <2> QED
    BY <1>1, <2>1, Quiet DEF vars
<1>2. ASSUME NEW p \in Procs, Start(p) \/ Step(p) \/ Crash(p) PROVE IInv'
  BY <1>2, QuietSteps, StagedNameStep, OpenDirectStep, WriteStep, RenameStep DEF Step
<1>3. CASE Env
  BY <1>3, EnvStep
<1> QED
  BY <1>1, <1>2, <1>3 DEF Next

\* In every state a run writes only where the invariant lets it.
THEOREM Inductive == Spec => []IInv
<1>1. Spec => []TypeOK
  BY TypeCorrect
<1> QED
  BY <1>1, InitInv, InvStep, PTL DEF Spec

\* Whatever fails or interferes, a file anyone can read at a path is whole or
\* is being written straight through, as for a device.
THEOREM DestinationsStayWhole == Spec => []DestinationWhole
BY Inductive, InvWhole, PTL

---------------------------------------------------------------------------
(* What a reader sees change.                                              *)

\* A step that writes only to the staged file of p changes no entry.
LEMMA EntryKept ==
  ASSUME TypeOK, NEW p, ~Visible(p), UNCHANGED dirVars,
         \A i \in Inodes : i # p => owner'[i] = owner[i] /\ blocks'[i] = blocks[i]
  PROVE  \A n \in Paths : Entry(n)' = Entry(n)
<1> SUFFICES ASSUME NEW n \in Paths PROVE Entry(n)' = Entry(n)
  OBVIOUS
<1>1. file[n] \in Inodes
  BY DEF TypeOK
<1>2. kind[n] = "file" => file[n] # p
  BY DEF Visible
<1> QED
  BY <1>1, <1>2 DEF Entry

\* Writing into an invisible open file.
LEMMA PutHidden ==
  ASSUME IInv, NEW p \in Procs, ~direct[p], pc[p] = "write", UNCHANGED dirVars,
         UNCHANGED <<owner, blocks>> \/ \E b : Put(p, b)
  PROVE  \A n \in Paths : Entry(n)' = Entry(n)
<1>1. ~Visible(p) /\ out[p] = p
  BY Alone
<1>2. \A i \in Inodes : i # p => owner'[i] = owner[i] /\ blocks'[i] = blocks[i]
  BY <1>1 DEF Put, IInv, TypeOK
<1> QED
  BY <1>1, <1>2, EntryKept DEF IInv

\* The rename shows all of the run's output, at its destination only.
LEMMA RenameShows ==
  ASSUME IInv, NEW p \in Procs, Rename(p)
  PROVE  \/ UNCHANGED dirVars /\ pc'[p] = "cleanup" /\ \A n \in Paths : Entry(n)' = Entry(n)
         \/ /\ pc[p] = "commit" /\ pc'[p] = "ok"
            /\ \A n \in Paths : Entry(n)' = IF n = dst[p] THEN WholeOutput(p) ELSE Entry(n)
<1> USE DEF IInv
<1>1. ~direct[p] /\ pc[p] = "commit" /\ owner[p] = p /\ blocks[p] = NBlocks
  <2>1. ~direct[p] /\ pc[p] = "commit"
    BY DEF Rename, Early, Final
  <2>2. ~WrittenThrough(p)
    BY <2>1, Alone DEF WrittenThrough
  <2> QED
    BY <2>1, <2>2 DEF Written, Complete
<1>2. UNCHANGED <<owner, blocks>>
  BY DEF Rename
<1>3. CASE pc' = [pc EXCEPT ![p] = "cleanup"] /\ UNCHANGED dirVars
  BY <1>2, <1>3 DEF Entry, TypeOK
<1>4. CASE kind' = [kind EXCEPT ![dst[p]] = "file"] /\ file' = [file EXCEPT ![dst[p]] = p] /\ pc' = [pc EXCEPT ![p] = "ok"]
  <2>1. kind'[dst[p]] = "file" /\ file'[dst[p]] = p /\ pc'[p] = "ok"
    BY <1>4 DEF TypeOK
  <2>2. ASSUME NEW n \in Paths, n = dst[p] PROVE Entry(n)' = WholeOutput(p)
    BY <1>1, <1>2, <2>1, <2>2 DEF Entry, WholeOutput
  <2>3. ASSUME NEW n \in Paths, n # dst[p] PROVE Entry(n)' = Entry(n)
    <3>1. kind'[n] = kind[n] /\ file'[n] = file[n]
      BY <1>4, <2>3 DEF TypeOK
    <3> QED
      BY <1>2, <3>1 DEF Entry
  <2> QED
    BY <1>1, <2>1, <2>2, <2>3
<1> QED
  BY <1>3, <1>4 DEF Rename

\* What every step of a run does to what can be read.
LEMMA StepShows ==
  ASSUME IInv, NEW p \in Procs, Start(p) \/ Step(p) \/ Crash(p)
  PROVE  \/ \A n \in Paths : Entry(n)' = Entry(n)
         \/ (direct[p] \/ OpenDirect(p)) /\ direct'[p]
         \/ /\ pc[p] = "commit" /\ pc'[p] = "ok"
            /\ \A n \in Paths : Entry(n)' = IF n = dst[p] THEN WholeOutput(p) ELSE Entry(n)
<1>1. CASE \/ Start(p) \/ Resolve(p) \/ RefuseReadOnly(p) \/ ChooseStaging(p)
           \/ CopyPermissions(p) \/ Remove(p) \/ Crash(p)
  <2>1. UNCHANGED <<dirVars, owner, blocks>>
    BY <1>1 DEF Start, Begin, BeginUnknownFormat, Resolve, RefuseReadOnly, ChooseStaging,
         CopyPermissions, Remove, Crash
  <2> QED
    BY <2>1 DEF Entry
<1>2. CASE StagedName(p)
  <2>1. ~direct[p] /\ pc[p] = "create"
    BY <1>2 DEF StagedName, TryNames, IInv, Early, Final
  <2>2. ~Visible(p)
    BY <2>1, Alone
  <2>3. \A i \in Inodes : i # p => owner'[i] = owner[i] /\ blocks'[i] = blocks[i]
    BY <1>2 DEF StagedName, TryNames, IInv, TypeOK
  <2> QED
    BY <1>2, <2>2, <2>3, EntryKept DEF IInv, StagedName, TryNames
<1>3. CASE OpenDirect(p)
  <2>1. CASE UNCHANGED <<dirVars, nodeVars>>
    BY <2>1 DEF Entry
  <2>2. CASE direct' = [direct EXCEPT ![p] = TRUE]
    BY <1>3, <2>2 DEF IInv, TypeOK
  <2> QED
    BY <1>3, <2>1, <2>2 DEF OpenDirect
<1>4. CASE WriteBlock(p) \/ DecodeError(p) \/ WriteError(p) \/ Flush(p)
  <2>1. pc[p] = "write" /\ UNCHANGED <<dirVars, direct>>
        /\ (UNCHANGED <<owner, blocks>> \/ \E b : Put(p, b))
    BY <1>4 DEF WriteBlock, DecodeError, WriteError, Flush, DropBuffer
  <2> QED
    BY <2>1, PutHidden
<1>5. CASE Rename(p)
  BY <1>5, RenameShows
<1> QED
  BY <1>1, <1>2, <1>3, <1>4, <1>5 DEF Step

\* For any number of runs and any failing calls, a reader sees a path change
\* at a rename, to the whole output, and otherwise only by a run that writes
\* straight through or by another program.
THEOREM ReadersSeeWholeOutputs == Spec => ReadersSeeOneStep
<1> DEFINE Seen == \A n \in Paths : Entry(n)' # Entry(n) =>
       \/ env' # env
       \/ \E q \in Procs : direct'[q]
       \/ \E p \in Procs : pc[p] = "commit" /\ pc'[p] = "ok" /\ dst[p] = n /\ Entry(n)' = <<p, NBlocks>>
<1>1. IInv /\ [Next]_vars => [Seen]_vars
  <2> SUFFICES ASSUME IInv, Next PROVE Seen
    OBVIOUS
  <2>1. ASSUME NEW p \in Procs, Start(p) \/ Step(p) \/ Crash(p) PROVE Seen
    <3> SUFFICES ASSUME NEW n \in Paths, Entry(n)' # Entry(n), ~\E q \in Procs : direct'[q]
                 PROVE  pc[p] = "commit" /\ pc'[p] = "ok" /\ dst[p] = n /\ Entry(n)' = WholeOutput(p)
      BY DEF WholeOutput
    <3> HIDE DEF Seen
    <3> QED
      BY <2>1, StepShows
  <2>2. CASE Env
    <3>1. env' = env - 1
      BY <2>2 DEF Env, EnvChmod, EnvRemove, EnvReplace, EnvLink, Meddle
    <3> QED
      BY <3>1, Constants DEF IInv, TypeOK
  <2> QED
    BY <2>1, <2>2 DEF Next
<1>2. Spec => []IInv
  BY Inductive
<1> QED
  BY <1>1, <1>2, PTL DEF Spec, ReadersSeeOneStep

---------------------------------------------------------------------------
(* Refinement.  Left to themselves, runs whose destinations are plain      *)
(* files, or links to plain files, implement AtomicReplace.                *)

Stageable ==
  /\ EnvSteps = 0
  /\ \A n \in Paths : "device" \notin InitKinds[n]
  /\ \A n \in Paths : "link" \in InitKinds[n] => "link" \notin InitKinds[LinkTo[n]]

\* No destination is a device or a link, so nothing is opened in place.
PlacedAt(p) == pc[p] \in {"readonly", "stage", "create", "perms", "write", "commit", "cleanup"}
Undirected ==
  /\ env = 0
  /\ \A n \in Paths : kind[n] # "device" /\ (kind[n] = "link" => "link" \in InitKinds[n])
  /\ \A p \in Procs : ~direct[p] /\ pc[p] # "open" /\ (PlacedAt(p) => CanStage(dst[p]))

\* Where everything can be staged, no run ever writes straight through.
LEMMA UndirectedStep ==
  ASSUME Stageable, IInv, Undirected, [Next]_vars
  PROVE  Undirected' /\ ~Env /\ \A p \in Procs : ~OpenDirect(p)
<1> USE DEF Undirected
<1>1. ~Env /\ \A p \in Procs : ~OpenDirect(p)
  BY DEF Env, EnvChmod, EnvRemove, EnvReplace, EnvLink, Meddle, OpenDirect
<1>2. CASE UNCHANGED vars
  BY <1>1, <1>2 DEF vars, PlacedAt, CanStage
<1>3. ASSUME NEW p \in Procs, Start(p) \/ Step(p) \/ Crash(p) PROVE Undirected'
  <2>1. UNCHANGED <<env, direct>>
    BY <1>1, <1>3 DEF Start, Begin, BeginUnknownFormat, Step, Resolve, RefuseReadOnly, ChooseStaging,
         StagedName, TryNames, CopyPermissions, WriteBlock, DecodeError, WriteError, Flush, Rename, Remove, Crash
  <2>2. \A n \in Paths : kind'[n] = kind[n] \/ kind'[n] = "file"
    <3>1. CASE Rename(p)
      BY <3>1 DEF Rename, IInv, TypeOK
    <3>2. CASE ~Rename(p)
      BY <1>1, <1>3, <3>2 DEF Start, Begin, BeginUnknownFormat, Step, Resolve, RefuseReadOnly, ChooseStaging,
         StagedName, TryNames, CopyPermissions, WriteBlock, DecodeError, WriteError, Flush, Remove, Crash
    <3> QED
      BY <3>1, <3>2
  <2>3. \A q \in Procs : q # p => pc'[q] = pc[q] /\ dst'[q] = dst[q]
    <3>1. \E l : pc' = [pc EXCEPT ![p] = l] \/ pc' = pc
      BY <1>1, <1>3 DEF Start, Begin, BeginUnknownFormat, Step, Resolve, RefuseReadOnly, ChooseStaging,
         StagedName, TryNames, CopyPermissions, WriteBlock, DecodeError, WriteError, Fails, Flush, Rename, Remove, Crash
    <3>2. dst' = dst \/ \E d : dst' = [dst EXCEPT ![p] = d]
      BY <1>1, <1>3 DEF Start, Begin, BeginUnknownFormat, Step, Resolve, RefuseReadOnly, ChooseStaging,
         StagedName, TryNames, CopyPermissions, WriteBlock, DecodeError, WriteError, Flush, Rename, Remove, Crash
    <3> QED
      BY <3>1, <3>2 DEF IInv, TypeOK
  <2>4. \A q \in Procs : q # p => (PlacedAt(q)' => CanStage(dst[q])') /\ pc'[q] # "open"
    BY <2>2, <2>3 DEF PlacedAt, CanStage, IInv, TypeOK, Kinds
  <2>5. (PlacedAt(p)' => CanStage(dst[p])') /\ pc'[p] # "open"
    <3>1. CASE Resolve(p)
      <4>1. dst'[p] = Follow(arg[p]) /\ pc'[p] = "readonly" /\ kind' = kind
        BY <3>1 DEF Resolve, Destination, IInv, TypeOK
      <4>2. kind[Follow(arg[p])] \in {"file", "absent"}
        BY Constants DEF Follow, Stageable, IInv, TypeOK, Kinds
      <4> QED
        BY <4>1, <4>2 DEF CanStage
    <3>2. CASE ~Resolve(p)
      <4>1. dst' = dst /\ (PlacedAt(p)' => PlacedAt(p)) /\ pc'[p] # "open"
        <5>1. CASE Start(p) \/ Crash(p)
          BY <5>1 DEF Start, Begin, BeginUnknownFormat, Crash, PlacedAt, IInv, TypeOK
        <5>2. CASE ChooseStaging(p)
          BY <5>2 DEF ChooseStaging, PlacedAt, IInv, TypeOK
        <5>3. CASE RefuseReadOnly(p) \/ StagedName(p) \/ CopyPermissions(p)
          BY <5>3 DEF RefuseReadOnly, StagedName, TryNames, CopyPermissions, PlacedAt, IInv, TypeOK
        <5>4. CASE WriteBlock(p) \/ DecodeError(p) \/ WriteError(p) \/ Flush(p)
          BY <5>4 DEF WriteBlock, DecodeError, WriteError, Fails, Flush, PlacedAt, IInv, TypeOK
        <5>5. CASE Rename(p) \/ Remove(p)
          BY <5>5 DEF Rename, Remove, PlacedAt, IInv, TypeOK
        <5> QED
          BY <1>1, <1>3, <3>2, <5>1, <5>2, <5>3, <5>4, <5>5 DEF Step
      <4> QED
        BY <2>2, <4>1 DEF CanStage, IInv, TypeOK, Kinds
    <3> QED
      BY <3>1, <3>2
  <2> QED
    BY <2>1, <2>2, <2>4, <2>5
<1> QED
  BY <1>1, <1>2, <1>3 DEF Next

\* No run writes through at first.
LEMMA UndirectedInit == ASSUME Stageable, Init PROVE Undirected
BY Constants DEF Stageable, Init, Undirected, PlacedAt

\* Where nothing is written straight through, every step is one the abstract
\* specification allows.
LEMMA Implements ==
  ASSUME Stageable, IInv, Undirected, [Next]_vars, IInv'
  PROVE  [Abs!Next]_(Abs!vars)
<1>0. Undirected' /\ ~Env /\ \A p \in Procs : ~OpenDirect(p)
  BY UndirectedStep
<1>1. CASE UNCHANGED vars
  BY <1>1 DEF vars, Entry, Abs!vars, Outcome
<1>2. ASSUME NEW p \in Procs, Start(p) \/ Step(p) \/ Crash(p) PROVE [Abs!Next]_(Abs!vars)
  <2>1. pc[p] \notin Final /\ \A q \in Procs : q # p => pc'[q] = pc[q]
    BY <1>0, <1>2, ZenonT(60) DEF Start, Begin, BeginUnknownFormat, Step, Resolve, RefuseReadOnly, ChooseStaging,
         StagedName, TryNames, CopyPermissions, WriteBlock, DecodeError, WriteError, Fails, Flush, Rename, Remove,
         Crash, Live, Final, IInv, TypeOK
  <2>2. \/ pc'[p] # "ok" /\ \A n \in Paths : Entry(n)' = Entry(n)
        \/ /\ pc'[p] = "ok" /\ dst[p] \in Paths
           /\ \A n \in Paths : Entry(n)' = IF n = dst[p] THEN WholeOutput(p) ELSE Entry(n)
    <3>1. CASE Rename(p)
      BY <3>1, RenameShows DEF IInv, TypeOK
    <3>2. CASE ~Rename(p)
      <4>1. pc'[p] # "ok"
        BY <1>0, <1>2, <3>2, ZenonT(60) DEF Undirected, Start, Begin, BeginUnknownFormat, Step, Resolve, RefuseReadOnly,
           ChooseStaging, StagedName, TryNames, CopyPermissions, WriteBlock, DecodeError, WriteError, Fails, Flush,
           Remove, Crash, Live, Final, IInv, TypeOK
      <4> QED
        BY <1>0, <1>2, <4>1, StepShows DEF Undirected
    <3> QED
      BY <3>1, <3>2
  <2>3. CASE pc'[p] # "ok" /\ \A n \in Paths : Entry(n)' = Entry(n)
    <3>1. [n \in Paths |-> Entry(n)]' = [n \in Paths |-> Entry(n)]
      BY <2>3
    <3>2. CASE pc'[p] \in {"err", "dead"}
      <4>1. [q \in Procs |-> Outcome(q)]' = [[q \in Procs |-> Outcome(q)] EXCEPT ![p] = pc'[p]]
        BY <2>1, <3>2 DEF Outcome, Final
      <4>2. [q \in Procs |-> Outcome(q)][p] = "pending"
        BY <2>1 DEF Outcome
      <4>3. Abs!Fail(p)
        BY <3>1, <3>2, <4>1, <4>2 DEF Abs!Fail
      <4> QED
        BY <4>3 DEF Abs!Next
    <3>3. CASE pc'[p] \notin {"err", "dead"}
      <4>1. [q \in Procs |-> Outcome(q)]' = [q \in Procs |-> Outcome(q)]
        BY <2>1, <2>3, <3>3 DEF Outcome, Final
      <4> QED
        BY <3>1, <4>1 DEF Abs!vars
    <3> QED
      BY <3>2, <3>3
  <2>4. CASE /\ pc'[p] = "ok" /\ dst[p] \in Paths
             /\ \A n \in Paths : Entry(n)' = IF n = dst[p] THEN WholeOutput(p) ELSE Entry(n)
    <3>1. [n \in Paths |-> Entry(n)]' = [[n \in Paths |-> Entry(n)] EXCEPT ![dst[p]] = WholeOutput(p)]
      BY <2>4
    <3>2. [q \in Procs |-> Outcome(q)]' = [[q \in Procs |-> Outcome(q)] EXCEPT ![p] = "ok"]
      BY <2>1, <2>4 DEF Outcome, Final
    <3>3. [q \in Procs |-> Outcome(q)][p] = "pending"
      BY <2>1 DEF Outcome
    <3>4. Abs!Replace(p, dst[p])
      BY <3>1, <3>2, <3>3 DEF Abs!Replace
    <3> QED
      BY <2>4, <3>4 DEF Abs!Next
  <2> QED
    BY <2>2, <2>3, <2>4
<1> QED
  BY <1>0, <1>1, <1>2 DEF Next

\* Before the first run both models show the same paths.
LEMMA ImplementsInit == Init => Abs!Init
<1> SUFFICES ASSUME Init PROVE Abs!Init
  OBVIOUS
<1>1. ASSUME NEW n \in Paths, NEW p \in Procs PROVE Entry(n) # WholeOutput(p)
  <2>1. CASE kind[n] = "file"
    <3>1. owner[file[n]] \in Files
      BY Constants DEF Init
    <3> QED
      BY <2>1, <3>1, Constants DEF Entry, WholeOutput
  <2>2. CASE kind[n] # "file"
    BY <2>2, Constants DEF Entry, WholeOutput
  <2> QED
    BY <2>1, <2>2
<1>2. [p \in Procs |-> Outcome(p)] = [p \in Procs |-> "pending"]
  BY DEF Init, Outcome, Final
<1> QED
  BY <1>1, <1>2 DEF Abs!Init

\* Runs over plain files and links to plain files, with no other program in
\* the way, are a refinement of atomic replacement: every failing call, kill
\* and interleaving of any number of them maps to a failure, to one whole
\* replacement, or to nothing.
THEOREM StagedImplementsAtomic == Stageable => (Spec => ReplacesAtomically)
<1> SUFFICES ASSUME Stageable PROVE Spec => ReplacesAtomically
  OBVIOUS
<1>1. Init => Undirected /\ Abs!Init
  BY UndirectedInit, ImplementsInit
<1>2. IInv /\ Undirected /\ [Next]_vars => Undirected'
  BY UndirectedStep
<1>3. IInv /\ IInv' /\ Undirected /\ [Next]_vars => [Abs!Next]_(Abs!vars)
  BY Implements
<1>4. Spec => []IInv
  BY Inductive
<1> QED
  BY <1>1, <1>2, <1>3, <1>4, PTL DEF Spec, Abs!Spec, ReplacesAtomically

---------------------------------------------------------------------------
(* What a run that failed leaves behind.                                   *)

\* Where nothing is written straight through, a file that can be read is
\* another program's, or that of a run which has succeeded.
LEMMA FailedNowhere ==
  ASSUME IInv, Undirected
  PROVE  FailedDecodeIntact
<1> SUFFICES ASSUME NEW p \in Procs, pc[p] = "err", NEW n \in Paths, kind[n] = "file"
             PROVE  owner[file[n]] # p
  BY DEF FailedDecodeIntact
<1>1. file[n] \in Procs \cup Files /\ Visible(file[n])
  BY Constants DEF IInv, TypeOK, Visible
<1>2. \A i : ~WrittenThrough(i)
  BY DEF Undirected, WrittenThrough
<1>3. CASE file[n] \in Files
  BY <1>2, <1>3, Constants DEF IInv, Foreign
<1>4. CASE file[n] \in Procs
  BY <1>1, <1>2, <1>4 DEF IInv, Hidden, Written, Undirected
<1> QED
  BY <1>1, <1>3, <1>4

\* A decode that fails has put nothing at any path, however many runs there
\* are and whichever calls fail (main.rs: decompress_to_file, staged_file).
THEOREM FailuresStayIntact == Stageable => (Spec => []FailedDecodeIntact)
<1> SUFFICES ASSUME Stageable PROVE Spec => []FailedDecodeIntact
  OBVIOUS
<1>1. Init => Undirected
  BY UndirectedInit
<1>2. IInv /\ Undirected /\ [Next]_vars => Undirected'
  BY UndirectedStep
<1>3. Spec => []IInv
  BY Inductive
<1> QED
  BY <1>1, <1>2, <1>3, FailedNowhere, PTL DEF Spec

\* A staged file is at the name its run tried last, and the run is on its way
\* to rename or remove it, unless it was killed.
Tidy ==
  \A p \in Procs, k \in 0..Attempts-1 :
    slot[p][k] = "mine" => /\ k = attempt[p] /\ ~direct[p]
                           /\ pc[p] \in {"perms", "write", "commit", "cleanup", "dead"}

\* A step of one run leaves the names of the others alone.
LEMMA TidyKept ==
  ASSUME TypeOK, Tidy, NEW p \in Procs,
         \A q \in Procs : q # p => pc'[q] = pc[q] /\ slot'[q] = slot[q] /\ attempt'[q] = attempt[q] /\ direct'[q] = direct[q],
         \A k \in 0..Attempts-1 : slot'[p][k] = "mine" =>
            /\ k = attempt'[p] /\ ~direct'[p]
            /\ pc'[p] \in {"perms", "write", "commit", "cleanup", "dead"}
  PROVE  Tidy'
BY DEF Tidy

\* Removing a staged file works: the one assumption about the calls.
LEMMA TidyStep ==
  ASSUME "unlink" \notin Faults, IInv, Tidy, [Next]_vars
  PROVE  Tidy'
<1>0. TypeOK
  BY DEF IInv
<1> USE <1>0 DEF TypeOK
<1>1. CASE UNCHANGED vars
  BY <1>1 DEF vars, Tidy
<1>2. CASE Env
  BY <1>2 DEF Env, EnvChmod, EnvRemove, EnvReplace, EnvLink, Meddle, Tidy
<1>3. ASSUME NEW p \in Procs, Start(p) \/ Crash(p) \/ Resolve(p) \/ RefuseReadOnly(p) \/ ChooseStaging(p) PROVE Tidy'
  <2>1. UNCHANGED <<slot, attempt, direct>> /\ \A q \in Procs : q # p => pc'[q] = pc[q]
    BY <1>3 DEF Start, Begin, BeginUnknownFormat, Crash, Resolve, RefuseReadOnly, ChooseStaging
  <2>2. pc'[p] = "dead" \/ pc[p] \in {"idle", "resolve", "readonly", "stage"}
    BY <1>3 DEF Start, Begin, BeginUnknownFormat, Crash, Resolve, RefuseReadOnly, ChooseStaging
  <2> QED
    BY <2>1, <2>2 DEF Tidy
<1>4. ASSUME NEW p \in Procs, StagedName(p) PROVE Tidy'
  <2>1. \A k \in 0..Attempts-1 : slot[p][k] # "mine"
    BY <1>4 DEF StagedName, TryNames, Tidy
  <2>2. direct' = direct /\ ~direct[p]
    BY <1>4 DEF StagedName, TryNames, IInv, Early, Final
  <2>3. CASE slot' = slot
    <3>1. \A q \in Procs : q # p => pc'[q] = pc[q] /\ attempt'[q] = attempt[q]
      BY <1>4 DEF StagedName, TryNames
    <3> QED
      BY <2>1, <2>2, <2>3, <3>1, TidyKept
  <2>4. CASE slot' = [slot EXCEPT ![p][attempt[p]] = "mine"] /\ pc' = [pc EXCEPT ![p] = "perms"] /\ UNCHANGED attempt
    <3>1. \A k \in 0..Attempts-1 : slot'[p][k] = "mine" => k = attempt'[p] /\ pc'[p] = "perms"
      BY <2>1, <2>4
    <3>2. ~direct'[p] /\ pc'[p] = "perms"
      BY <2>2, <2>4
    <3>3. \A q \in Procs : q # p => pc'[q] = pc[q] /\ slot'[q] = slot[q] /\ attempt'[q] = attempt[q] /\ direct'[q] = direct[q]
      BY <2>2, <2>4
    <3> QED
      BY <3>1, <3>2, <3>3, TidyKept
  <2> QED
    BY <1>4, <2>3, <2>4 DEF StagedName, TryNames
<1>5. ASSUME NEW p \in Procs,
             CopyPermissions(p) \/ WriteBlock(p) \/ DecodeError(p) \/ WriteError(p) \/ Flush(p) PROVE Tidy'
  <2>1. UNCHANGED <<slot, attempt, direct>> /\ \A q \in Procs : q # p => pc'[q] = pc[q]
    BY <1>5 DEF CopyPermissions, WriteBlock, DecodeError, WriteError, Flush, Fails
  <2>2. direct[p] \/ pc'[p] \in {"perms", "write", "commit", "cleanup", "dead"}
    BY <1>5 DEF CopyPermissions, WriteBlock, DecodeError, WriteError, Flush, Fails
  <2> QED
    BY <2>1, <2>2 DEF Tidy
<1>6. ASSUME NEW p \in Procs, OpenDirect(p) PROVE Tidy'
  <2>1. \A k \in 0..Attempts-1 : slot[p][k] # "mine"
    BY <1>6 DEF OpenDirect, Tidy
  <2>2. UNCHANGED <<slot, attempt>> /\ \A q \in Procs : q # p => pc'[q] = pc[q] /\ direct'[q] = direct[q]
    BY <1>6 DEF OpenDirect
  <2> QED
    BY <2>1, <2>2, ZenonT(60) DEF Tidy
<1>7. ASSUME NEW p \in Procs, Rename(p) \/ Remove(p) PROVE Tidy'
  <2>1. UNCHANGED <<attempt, direct>> /\ \A q \in Procs : q # p => pc'[q] = pc[q] /\ slot'[q] = slot[q]
    BY <1>7 DEF Rename, Remove
  <2>2. CASE slot' = [slot EXCEPT ![p][attempt[p]] = "free"]
    <3>1. \A k \in 0..Attempts-1 : slot'[p][k] # "mine"
      BY <2>2 DEF Tidy
    <3> QED
      BY <2>1, <3>1, TidyKept
  <2>3. CASE slot' = slot /\ pc'[p] = "cleanup"
    BY <2>1, <2>3 DEF Tidy
  <2> QED
    BY <1>7, <2>2, <2>3 DEF Rename, Remove
<1> QED
  BY <1>1, <1>2, <1>3, <1>4, <1>5, <1>6, <1>7 DEF Next, Step

\* A run that ended by itself has left no staged file, as long as removing one
\* works, whatever else fails or interferes (main.rs: write_atomically and
\* decompress_to_file, "never leave a half-written or unverified file behind").
THEOREM NothingLeftBehind == "unlink" \notin Faults => (Spec => []NoLitter)
<1> SUFFICES ASSUME "unlink" \notin Faults PROVE Spec => []NoLitter
  OBVIOUS
<1>1. Init => Tidy
  BY Constants DEF Init, Tidy
<1>2. IInv /\ Tidy /\ [Next]_vars => Tidy'
  BY TidyStep
<1>3. Tidy => NoLitter
  BY DEF Tidy, NoLitter
<1>4. Spec => []IInv
  BY Inductive
<1> QED
  BY <1>1, <1>2, <1>3, <1>4, PTL DEF Spec

---------------------------------------------------------------------------
(* What a run may do to the files of others: stale temporaries are left    *)
(* alone, whatever fails.                                                  *)

\* From its creation to its end the staged file is at the name last tried.
Held ==
  \A p \in Procs : ~direct[p] /\ pc[p] \in {"perms", "write", "commit", "cleanup"} =>
    slot[p][attempt[p]] = "mine"

\* No run holds a staged file at first.
LEMMA HeldInit == Init => Held
BY DEF Init, Held

\* A staged file stays at the name it was created under.
LEMMA HeldStep == IInv /\ TypeOK' /\ Held /\ [Next]_vars => Held'
<1> SUFFICES ASSUME IInv, TypeOK', Held, [Next]_vars PROVE Held'
  OBVIOUS
<1>0. TypeOK
  BY DEF IInv
<1> USE <1>0 DEF TypeOK
<1>1. CASE UNCHANGED vars
  BY <1>1 DEF vars, Held
<1>2. CASE Env
  BY <1>2, ZenonT(60) DEF Env, EnvChmod, EnvRemove, EnvReplace, EnvLink, Meddle, Held
<1>3. ASSUME NEW p \in Procs, Start(p) \/ Crash(p) \/ Resolve(p) \/ RefuseReadOnly(p) \/ ChooseStaging(p) PROVE Held'
  <2>1. UNCHANGED <<slot, attempt, direct>> /\ \A q \in Procs : q # p => pc'[q] = pc[q]
    BY <1>3 DEF Start, Begin, BeginUnknownFormat, Crash, Resolve, RefuseReadOnly, ChooseStaging
  <2>2. pc'[p] \in {"dead", "err", "resolve", "readonly", "stage", "create", "open"}
    BY <1>3 DEF Start, Begin, BeginUnknownFormat, Crash, Resolve, RefuseReadOnly, ChooseStaging
  <2> QED
    BY <2>1, <2>2 DEF Held
<1>4. ASSUME NEW p \in Procs, StagedName(p) PROVE Held'
  <2>1. direct' = direct /\ \A q \in Procs : q # p => pc'[q] = pc[q] /\ slot'[q] = slot[q] /\ attempt'[q] = attempt[q]
    BY <1>4, ZenonT(60) DEF StagedName, TryNames
  <2>2. CASE pc' = [pc EXCEPT ![p] = "err"] \/ (pc' = pc /\ pc[p] = "create")
    <3>1. pc'[p] \in {"err", "create"}
      BY <2>2
    <3> QED
      BY <2>1, <3>1 DEF Held
  <2>3. CASE slot' = [slot EXCEPT ![p][attempt[p]] = "mine"] /\ UNCHANGED attempt
    <3>1. slot'[p][attempt'[p]] = "mine"
      BY <2>3
    <3> QED
      BY <2>1, <3>1 DEF Held
  <2> QED
    BY <1>4, <2>2, <2>3 DEF StagedName, TryNames
<1>5. ASSUME NEW p \in Procs,
             CopyPermissions(p) \/ WriteBlock(p) \/ DecodeError(p) \/ WriteError(p) \/ Flush(p) PROVE Held'
  <2>1. UNCHANGED <<slot, attempt, direct>> /\ \A q \in Procs : q # p => pc'[q] = pc[q]
    BY <1>5 DEF CopyPermissions, WriteBlock, DecodeError, WriteError, Flush, Fails
  <2>2. pc[p] \in {"perms", "write"}
    BY <1>5 DEF CopyPermissions, WriteBlock, DecodeError, WriteError, Flush
  <2> QED
    BY <2>1, <2>2 DEF Held
<1>6. ASSUME NEW p \in Procs, OpenDirect(p) PROVE Held'
  <2>1. UNCHANGED <<slot, attempt>> /\ \A q \in Procs : q # p => pc'[q] = pc[q] /\ direct'[q] = direct[q]
    BY <1>6, ZenonT(60) DEF OpenDirect
  <2>2. direct'[p] \/ pc'[p] = "err"
    BY <1>6 DEF OpenDirect
  <2> QED
    BY <2>1, <2>2 DEF Held
<1>7. ASSUME NEW p \in Procs, Rename(p) \/ Remove(p) PROVE Held'
  <2>1. UNCHANGED <<attempt, direct>> /\ \A q \in Procs : q # p => pc'[q] = pc[q] /\ slot'[q] = slot[q]
    BY <1>7 DEF Rename, Remove
  <2>2. pc'[p] \in {"ok", "err"} \/ (pc[p] = "commit" /\ slot' = slot)
    BY <1>7 DEF Rename, Remove
  <2> QED
    BY <2>1, <2>2 DEF Held
<1> QED
  BY <1>1, <1>2, <1>3, <1>4, <1>5, <1>6, <1>7 DEF Next, Step

\* Giving a name of one run another state leaves the names in other states.
LEMMA KeptUnless ==
  ASSUME TypeOK, NEW p \in Procs, NEW k \in 0..Attempts-1, NEW q \in Procs, NEW s,
         slot[q][attempt[q]] # slot[p][k], slot' = [slot EXCEPT ![q][attempt[q]] = s]
  PROVE  slot'[p][k] = slot[p][k]
<1>1. CASE p # q
  BY <1>1 DEF TypeOK
<1>2. CASE p = q /\ k # attempt[q]
  BY <1>2 DEF TypeOK
<1> QED
  BY <1>1, <1>2

\* A step touches a name that is taken only by way of a name that is held.
LEMMA TakenStays ==
  ASSUME IInv, Held, [Next]_vars, NEW p \in Procs, NEW k \in 0..Attempts-1, slot[p][k] = "taken"
  PROVE  slot'[p][k] = "taken"
<1>0. TypeOK
  BY DEF IInv
<1> USE <1>0 DEF TypeOK
<1>1. CASE UNCHANGED vars \/ Env
  BY <1>1 DEF vars, Env, EnvChmod, EnvRemove, EnvReplace, EnvLink, Meddle
<1>2. ASSUME NEW q \in Procs, StagedName(q) PROVE slot'[p][k] = "taken"
  <2>1. slot' = slot \/ (slot[q][attempt[q]] = "free" /\ slot' = [slot EXCEPT ![q][attempt[q]] = "mine"])
    BY <1>2 DEF StagedName, TryNames
  <2>2. CASE slot[q][attempt[q]] = "free" /\ slot' = [slot EXCEPT ![q][attempt[q]] = "mine"]
    <3>1. slot[q][attempt[q]] # slot[p][k]
      BY <2>2
    <3> QED
      BY <2>2, <3>1, KeptUnless
  <2> QED
    BY <2>1, <2>2
<1>3. ASSUME NEW q \in Procs, Rename(q) \/ Remove(q) PROVE slot'[p][k] = "taken"
  <2>1. slot[q][attempt[q]] = "mine"
    BY <1>3 DEF Rename, Remove, Held, IInv, Early, Final
  <2>2. slot' = slot \/ slot' = [slot EXCEPT ![q][attempt[q]] = "free"]
    BY <1>3 DEF Rename, Remove
  <2>3. CASE slot' = [slot EXCEPT ![q][attempt[q]] = "free"]
    <3>1. slot[q][attempt[q]] # slot[p][k]
      BY <2>1
    <3> QED
      BY <2>3, <3>1, KeptUnless
  <2> QED
    BY <2>2, <2>3
<1>4. ASSUME NEW q \in Procs,
             \/ Start(q) \/ Crash(q) \/ Resolve(q) \/ RefuseReadOnly(q) \/ ChooseStaging(q) \/ CopyPermissions(q)
             \/ OpenDirect(q) \/ WriteBlock(q) \/ DecodeError(q) \/ WriteError(q) \/ Flush(q)
      PROVE  slot'[p][k] = "taken"
  BY <1>4 DEF Start, Begin, BeginUnknownFormat, Crash, Resolve, RefuseReadOnly, ChooseStaging, CopyPermissions,
              OpenDirect, WriteBlock, DecodeError, WriteError, Flush, Fails
<1> QED
  BY <1>1, <1>2, <1>3, <1>4 DEF Next, Step

\* A temporary that was there before the run is neither written nor removed,
\* whatever fails and whoever interferes (staged_file: create_new).
THEOREM StaleLeftAlone == Spec => ForeignUntouched
<1> DEFINE Left == \A p \in Procs, k \in 0..Attempts-1 : slot[p][k] = "taken" => slot'[p][k] = "taken"
<1>1. IInv /\ Held /\ [Next]_vars => [Left]_vars
  BY TakenStays
<1>2. Spec => [](IInv /\ Held)
  BY HeldInit, HeldStep, Inductive, TypeCorrect, PTL DEF Spec
<1>3. [][Left]_vars => ForeignUntouched
  BY DEF ForeignUntouched
<1> QED
  BY <1>1, <1>2, <1>3, PTL DEF Spec

---------------------------------------------------------------------------
(* What a run nobody disturbs replaces.                                    *)

\* What the run has found out about its destination is still so.
Placed(p) ==
  /\ pc[p] \in {"readonly", "stage", "create", "perms", "write", "commit"} => dst[p] = Follow(arg[p])
  /\ pc[p] \in {"stage", "create", "perms", "write", "commit"} => ~ReadOnly(dst[p])
  /\ pc[p] \in {"create", "perms", "write", "commit"} => CanStage(dst[p])
  /\ pc[p] \in {"write", "commit"} => (kind[dst[p]] = "file" => mode[p] = mode[file[dst[p]]])

Calm      == \A p \in Procs : ~disturbed[p] /\ ~direct[p] => Placed(p)
LinksLead == \A n \in Paths : kind[n] = "link" => LinkTo[n] # n

\* No link that is there at first names itself.
LEMMA LinksInit == Init => LinksLead
BY LinkAssumption DEF LinkAssumption, Init, LinksLead

\* Nor does one that is made later.
LEMMA LinksStep == ASSUME TypeOK, LinksLead, [Next]_vars PROVE LinksLead'
<1> USE DEF TypeOK, LinksLead
<1>1. CASE UNCHANGED vars
  BY <1>1 DEF vars
<1>2. CASE Env
  BY <1>2 DEF Env, EnvChmod, EnvRemove, EnvReplace, EnvLink
<1>3. ASSUME NEW p \in Procs, OpenDirect(p) PROVE LinksLead'
  BY <1>3, ChainInPaths DEF OpenDirect
<1>4. ASSUME NEW p \in Procs, Rename(p) PROVE LinksLead'
  BY <1>4 DEF Rename
<1>5. ASSUME NEW p \in Procs,
             \/ Start(p) \/ Crash(p) \/ Resolve(p) \/ RefuseReadOnly(p) \/ ChooseStaging(p) \/ StagedName(p)
             \/ CopyPermissions(p) \/ WriteBlock(p) \/ DecodeError(p) \/ WriteError(p) \/ Flush(p) \/ Remove(p)
      PROVE  LinksLead'
  BY <1>5 DEF Start, Begin, BeginUnknownFormat, Crash, Resolve, RefuseReadOnly, ChooseStaging, StagedName,
              TryNames, CopyPermissions, WriteBlock, DecodeError, WriteError, Flush, Remove
<1> QED
  BY <1>1, <1>2, <1>3, <1>4, <1>5 DEF Next, Step

\* Nothing a run has found out is changed by a step that leaves the directory
\* and the permissions of what it shows.
LEMMA Still ==
  ASSUME TypeOK, NEW p \in Procs, Placed(p), UNCHANGED dirVars, pc'[p] = pc[p], dst'[p] = dst[p], arg' = arg,
         mode'[p] = mode[p], \A i \in Inodes : Visible(i) => mode'[i] = mode[i]
  PROVE  Placed(p)'
<1>1. dst[p] \in Paths /\ file[dst[p]] \in Inodes
  BY DEF TypeOK
<1>2. kind[dst[p]] = "file" => mode'[file[dst[p]]] = mode[file[dst[p]]]
  BY <1>1 DEF Visible
<1> QED
  BY <1>1, <1>2 DEF Placed, Follow, ReadOnly, CanStage

\* A step of another actor leaves all a run has found out, or disturbs it.
LEMMA OthersStep ==
  ASSUME IInv, NEW p \in Procs, Placed(p),
         Env \/ \E q \in Procs : q # p /\ (Start(q) \/ Step(q) \/ Crash(q)), ~disturbed'[p]
  PROVE  Placed(p)'
<1>0. TypeOK
  BY DEF IInv
<1> USE <1>0 DEF TypeOK
<1>1. CASE Env
  <2>1. pc' = pc /\ ~Live(p)
    BY <1>1 DEF Env, EnvChmod, EnvRemove, EnvReplace, EnvLink, Meddle
  <2> QED
    BY <2>1 DEF Live, Placed, Final
<1>2. ASSUME NEW q \in Procs, q # p, Start(q) \/ Step(q) \/ Crash(q) PROVE Placed(p)'
  <2>1. pc'[p] = pc[p] /\ dst'[p] = dst[p] /\ arg' = arg
    <3>1. CASE Start(q) \/ Crash(q)
      BY <1>2, <3>1 DEF Start, Begin, BeginUnknownFormat, Crash
    <3>2. CASE Resolve(q) \/ RefuseReadOnly(q) \/ ChooseStaging(q)
      BY <1>2, <3>2 DEF Resolve, RefuseReadOnly, ChooseStaging
    <3>3. CASE StagedName(q) \/ CopyPermissions(q) \/ OpenDirect(q)
      BY <1>2, <3>3 DEF StagedName, TryNames, CopyPermissions, OpenDirect
    <3>4. CASE WriteBlock(q) \/ DecodeError(q) \/ WriteError(q) \/ Flush(q)
      BY <1>2, <3>4 DEF WriteBlock, DecodeError, WriteError, Flush, Fails
    <3>5. CASE Rename(q) \/ Remove(q)
      BY <1>2, <3>5 DEF Rename, Remove
    <3> QED BY <1>2, <3>1, <3>2, <3>3, <3>4, <3>5 DEF Step
  <2>2. CASE StagedName(q) \/ CopyPermissions(q)
    <3>1. ~Visible(q)
      BY <2>2, Alone DEF StagedName, TryNames, CopyPermissions, IInv, Early, Final
    <3>2. \A i \in Inodes : i # q => mode'[i] = mode[i]
      BY <2>2 DEF StagedName, TryNames, CopyPermissions
    <3>3. UNCHANGED dirVars
      BY <2>2 DEF StagedName, TryNames, CopyPermissions
    <3>4. p \in Inodes
      BY Constants
    <3> QED
      BY <1>2, <2>1, <3>1, <3>2, <3>3, <3>4, Still
  <2>3. CASE OpenDirect(q) \/ Rename(q)
    <3>1. UNCHANGED <<dirVars, mode>> \/ Disturb(q)
      BY <2>3 DEF OpenDirect, Rename
    <3>2. CASE UNCHANGED <<dirVars, mode>>
      BY <2>1, <3>2, Still
    <3>3. CASE Disturb(q)
      <4>1. ~Live(p)
        BY <1>2, <3>3 DEF Disturb
      <4> QED
        BY <2>1, <4>1 DEF Live, Placed, Final
    <3> QED
      BY <3>1, <3>2, <3>3
  <2>4. CASE \/ Start(q) \/ Resolve(q) \/ RefuseReadOnly(q) \/ ChooseStaging(q)
             \/ WriteBlock(q) \/ DecodeError(q) \/ WriteError(q) \/ Flush(q) \/ Remove(q) \/ Crash(q)
    <3>1. UNCHANGED <<dirVars, mode>>
      BY <2>4 DEF Start, Begin, BeginUnknownFormat, Resolve, RefuseReadOnly, ChooseStaging, WriteBlock,
                  DecodeError, WriteError, Flush, DropBuffer, Remove, Crash
    <3> QED
      BY <2>1, <3>1, Still
  <2> QED
    BY <1>2, <2>2, <2>3, <2>4 DEF Step
<1> QED
  BY <1>1, <1>2

\* The run's own steps find out what they rely on.
LEMMA OwnStep ==
  ASSUME "chmod" \notin Faults, IInv, NEW p \in Procs, Placed(p), ~direct[p],
         Start(p) \/ Step(p) \/ Crash(p), ~direct'[p]
  PROVE  Placed(p)'
<1>0. TypeOK
  BY DEF IInv
<1> USE <1>0 DEF TypeOK
<1>1. CASE Start(p) \/ Crash(p) \/ DecodeError(p) \/ WriteError(p) \/ Remove(p) \/ OpenDirect(p)
  <2>1. pc'[p] \in {"resolve", "err", "dead", "cleanup"}
    BY <1>1 DEF Start, Begin, BeginUnknownFormat, Crash, DecodeError, WriteError, Fails, Remove, OpenDirect
  <2> QED
    BY <2>1 DEF Placed
<1>2. CASE Resolve(p)
  BY <1>2 DEF Resolve, Destination, Placed, Follow
<1>3. CASE RefuseReadOnly(p)
  BY <1>3 DEF RefuseReadOnly, Placed, Follow, ReadOnly
<1>4. CASE ChooseStaging(p)
  BY <1>4 DEF ChooseStaging, Placed, Follow, ReadOnly, CanStage
<1>5. CASE StagedName(p)
  <2>0. pc[p] = "create" /\ UNCHANGED <<dirVars, arg, dst>> /\ pc'[p] \in {"create", "perms", "err"}
    BY <1>5 DEF StagedName, TryNames
  <2>1. kind[dst[p]] = "file" => file[dst[p]] # p
    BY <2>0, Alone DEF Visible
  <2>2. \A i \in Inodes : i # p => mode'[i] = mode[i]
    BY <1>5 DEF StagedName, TryNames
  <2> QED
    BY <2>0, <2>1, <2>2 DEF Placed, Follow, ReadOnly, CanStage
<1>6. CASE CopyPermissions(p)
  <2>0. pc[p] = "perms" /\ UNCHANGED <<dirVars, arg, dst>> /\ pc'[p] = "write"
    BY <1>6 DEF CopyPermissions
  <2>1. kind[dst[p]] = "file" => file[dst[p]] # p
    BY <2>0, Alone DEF Visible
  <2>2. EndOfChain(dst[p]) = dst[p]
    BY <2>0 DEF Placed, CanStage, EndOfChain, Follow
  <2>3. mode' = [mode EXCEPT ![p] = IF kind[dst[p]] = "file" THEN mode[file[dst[p]]] ELSE @]
    BY <1>6, <2>2 DEF CopyPermissions
  <2>4. p \in Inodes
    BY Constants
  <2>5. kind[dst[p]] = "file" => mode'[p] = mode[file[dst[p]]] /\ mode'[file[dst[p]]] = mode[file[dst[p]]]
    BY <2>1, <2>3, <2>4
  <2> QED
    BY <2>0, <2>5 DEF Placed, Follow, ReadOnly, CanStage
<1>7. CASE WriteBlock(p) \/ Flush(p)
  <2>1. UNCHANGED <<dirVars, mode, arg, dst>> /\ pc[p] = "write" /\ pc'[p] \in {"write", "commit", "ok"}
    BY <1>7 DEF WriteBlock, Flush
  <2> QED
    BY <2>1 DEF Placed, Follow, ReadOnly, CanStage
<1>8. CASE Rename(p)
  <2>1. pc'[p] \in {"ok", "cleanup"}
    BY <1>8 DEF Rename
  <2> QED
    BY <2>1 DEF Placed
<1> QED
  BY <1>1, <1>2, <1>3, <1>4, <1>5, <1>6, <1>7, <1>8 DEF Step

\* A disturbed run stays disturbed, and a direct one direct.
LEMMA HistoryStays ==
  ASSUME TypeOK, [Next]_vars, NEW p \in Procs
  PROVE  (disturbed[p] => disturbed'[p]) /\ (direct[p] => direct'[p])
<1> USE DEF TypeOK
<1>1. CASE UNCHANGED vars
  BY <1>1 DEF vars
<1>2. CASE Env
  BY <1>2 DEF Env, EnvChmod, EnvRemove, EnvReplace, EnvLink, Meddle
<1>3. ASSUME NEW q \in Procs, OpenDirect(q) \/ Rename(q) PROVE (disturbed[p] => disturbed'[p]) /\ (direct[p] => direct'[p])
  BY <1>3 DEF OpenDirect, Rename, Disturb
<1>4. ASSUME NEW q \in Procs,
             \/ Start(q) \/ Crash(q) \/ Resolve(q) \/ RefuseReadOnly(q) \/ ChooseStaging(q) \/ StagedName(q)
             \/ CopyPermissions(q) \/ WriteBlock(q) \/ DecodeError(q) \/ WriteError(q) \/ Flush(q) \/ Remove(q)
      PROVE  UNCHANGED <<disturbed, direct>>
  BY <1>4 DEF Start, Begin, BeginUnknownFormat, Crash, Resolve, RefuseReadOnly, ChooseStaging, StagedName,
              TryNames, CopyPermissions, WriteBlock, DecodeError, WriteError, Flush, Remove
<1> QED
  BY <1>1, <1>2, <1>3, <1>4 DEF Next, Step

\* What a run has found out stays so while nobody disturbs it.
LEMMA CalmStep ==
  ASSUME "chmod" \notin Faults, IInv, Calm, [Next]_vars
  PROVE  Calm'
<1> SUFFICES ASSUME NEW p \in Procs, ~disturbed'[p], ~direct'[p] PROVE Placed(p)'
  BY DEF Calm
<1>1. ~disturbed[p] /\ ~direct[p]
  BY HistoryStays DEF IInv
<1>2. Placed(p)
  BY <1>1 DEF Calm
<1>3. CASE UNCHANGED vars
  BY <1>2, <1>3 DEF vars, Placed, Follow, ReadOnly, CanStage
<1> QED
  BY <1>1, <1>2, <1>3, OthersStep, OwnStep DEF Next

\* The rename puts the output where the name the user typed leads.
LEMMA RenameFollowed ==
  ASSUME IInv, LinksLead, NEW p \in Procs, ~direct[p], Placed(p), Rename(p), pc'[p] = "ok"
  PROVE  /\ kind[dst[p]] \in {"file", "absent"}
         /\ kind[dst[p]] = "file" => mode[file[dst[p]]] # "readonly" /\ mode'[p] = mode[file[dst[p]]]
         /\ kind[arg[p]] = "link" => kind'[arg[p]] = "link"
         /\ EndOfChain(arg[p])' = dst[p]
<1>0. TypeOK
  BY DEF IInv
<1> USE <1>0 DEF TypeOK
<1>1. /\ pc[p] = "commit" /\ kind' = [kind EXCEPT ![dst[p]] = "file"]
      /\ UNCHANGED <<mode, arg>> /\ dst[p] \in Paths /\ arg[p] \in Paths
  BY DEF Rename
<1>2. dst[p] = Follow(arg[p]) /\ ~ReadOnly(dst[p]) /\ CanStage(dst[p])
      /\ (kind[dst[p]] = "file" => mode[p] = mode[file[dst[p]]])
  BY <1>1 DEF Placed
<1>3. kind'[dst[p]] = "file"
  BY <1>1
<1>4. kind[arg[p]] = "link" => dst[p] # arg[p]
  BY <1>1, <1>2 DEF LinksLead, Follow
<1>5. kind[arg[p]] = "link" => kind'[arg[p]] = "link"
  BY <1>1, <1>4
<1>6. Follow(arg[p])' = dst[p]
  BY <1>1, <1>2, <1>3, <1>5 DEF Follow
<1>7. EndOfChain(arg[p])' = dst[p]
  BY <1>1, <1>3, <1>6 DEF EndOfChain, Follow
<1> QED
  BY <1>1, <1>2, <1>5, <1>7 DEF ReadOnly, CanStage

\* Only a run's own rename takes it from "commit" to its success.
LEMMA DoneByRename ==
  ASSUME TypeOK, Next, NEW p \in Procs, pc[p] = "commit", pc'[p] = "ok"
  PROVE  Rename(p)
<1> USE DEF TypeOK
<1>1. ~Env
  BY DEF Env, EnvChmod, EnvRemove, EnvReplace, EnvLink, Meddle
<1>2. ASSUME NEW q \in Procs, Start(q) \/ Step(q) \/ Crash(q) PROVE Rename(p)
  BY <1>2 DEF Start, Begin, BeginUnknownFormat, Step, Resolve, RefuseReadOnly, ChooseStaging, StagedName,
              TryNames, CopyPermissions, OpenDirect, WriteBlock, DecodeError, WriteError, Flush, Fails,
              Rename, Remove, Crash
<1> QED
  BY <1>1, <1>2 DEF Next

\* However long a run takes between looking at its destination and replacing
\* it, if nobody touched the directory it replaces a writable file by one with
\* the same permissions, or nothing at all, at the end of the user's link
\* (main.rs: resolve_destination, staged_file).
THEOREM ReplacesWhatItSaw == "chmod" \notin Faults => (Spec => UndisturbedReplacement)
<1> SUFFICES ASSUME "chmod" \notin Faults PROVE Spec => UndisturbedReplacement
  OBVIOUS
<1> DEFINE Seen ==
      \A p \in Procs : (pc[p] = "commit" /\ pc'[p] = "ok" /\ ~disturbed[p]) =>
         /\ kind[dst[p]] \in {"file", "absent"}
         /\ kind[dst[p]] = "file" => mode[file[dst[p]]] # "readonly" /\ mode'[p] = mode[file[dst[p]]]
         /\ kind[arg[p]] = "link" => kind'[arg[p]] = "link"
         /\ EndOfChain(arg[p])' = dst[p]
<1>1. IInv /\ Calm /\ LinksLead /\ [Next]_vars => [Seen]_vars
  <2> SUFFICES ASSUME IInv, Calm, LinksLead, Next, NEW p \in Procs,
                      pc[p] = "commit", pc'[p] = "ok", ~disturbed[p]
               PROVE  /\ kind[dst[p]] \in {"file", "absent"}
                      /\ kind[dst[p]] = "file" => mode[file[dst[p]]] # "readonly" /\ mode'[p] = mode[file[dst[p]]]
                      /\ kind[arg[p]] = "link" => kind'[arg[p]] = "link"
                      /\ EndOfChain(arg[p])' = dst[p]
    OBVIOUS
  <2>1. ~direct[p] /\ Placed(p)
    BY DEF Calm, IInv, Early, Final
  <2>2. Rename(p)
    BY DoneByRename DEF IInv
  <2> QED
    BY <2>1, <2>2, RenameFollowed
<1>2. Init => Calm /\ LinksLead
  BY LinksInit DEF Init, Calm, Placed
<1>3. IInv /\ Calm /\ LinksLead /\ [Next]_vars => Calm' /\ LinksLead'
  BY CalmStep, LinksStep DEF IInv
<1>4. Spec => [](IInv /\ Calm /\ LinksLead)
  BY <1>2, <1>3, Inductive, PTL DEF Spec
<1>5. [][Seen]_vars => UndisturbedReplacement
  BY DEF UndisturbedReplacement
<1> QED
  BY <1>1, <1>4, <1>5, PTL DEF Spec
=============================================================================
