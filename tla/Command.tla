------------------------------ MODULE Command ------------------------------
(***************************************************************************)
(* Runs of the command line around the encryption wrapper (src/main.rs and *)
(* src/crypto/mod.rs): where a password comes from, what is sealed with    *)
(* it, and in which order a sealed file is opened, checked and restored.   *)
(*                                                                         *)
(* The cipher is ideal: a frame opens for the key and the header it was    *)
(* made with and for no other.  A container is the length of its input;    *)
(* how it is laid out and decoded is Container and BlockDecode, how output *)
(* reaches the disk StagedOutput.                                          *)
(***************************************************************************)
EXTENDS Integers, Sequences

CONSTANTS
  Inputs,    \* lengths of inputs
  Given,     \* password sources of a run: [argv, file, env, tty, again]
  Costs,     \* key-derivation costs a header may name: [m, t, p]
  Nxe2Kdf, DefaultKdf, MaxKdf,
  Legacy,    \* archives of other releases: [file, len, pw]
  MaxRuns    \* how often the program runs

VARIABLES
  archive, \* the file on disk, Nothing before it is written
  origin,  \* history: what the archive was made of: [len, pw, whole]
  given,   \* the password sources of the run
  run,     \* the run: [op, pc, sealing, input, pw, payload, error]
  left,    \* runs that may still start
  log      \* history of the run: [asked, worked, derived, result]

commandVars == <<archive, origin, given, run, left, log>>

\* A password is a sequence over characters and "newline", or one of these.
Absent     == <<"absent">>
Unreadable == <<"unreadable">>
NotUnicode == <<"not unicode">>

\* What is inside: the magic it starts with, and the input's length.
Bytes(magic, len) == [magic |-> magic, len |-> len]
NoFrame == [pw |-> Absent, kdf |-> Nxe2Kdf, header |-> << >>, holds |-> Bytes("empty", 0)]
Argon2id == 1   \* KDF_ARGON2ID_V13

Plain(bytes) == [wrapper |-> "none", id |-> 0, kdf |-> Nxe2Kdf, declared |-> 0, cut |-> "no", frame |-> NoFrame, bytes |-> bytes]
Nothing == Plain(Bytes("empty", 0))

Idle  == [op |-> "none", pc |-> "idle", sealing |-> FALSE, input |-> 0, pw |-> Absent,
          payload |-> Bytes("empty", 0), error |-> "none"]
Quiet == [asked |-> 0, worked |-> FALSE, derived |-> {}, result |-> << >>]

Goto(label) == run' = [run EXCEPT !.pc = label]
Refuse(why) == run' = [run EXCEPT !.pc = "err", !.error = why]

---------------------------------------------------------------------------
(* password: the command line, a file, the environment, the terminal       *)

Got(pw, asked)     == [error |-> "none", pw |-> pw, asked |-> asked]
Denied(why, asked) == [error |-> why, pw |-> Absent, asked |-> asked]

Trimmed(pw) ==
  LET kept == {0} \cup {k \in DOMAIN pw : pw[k] # "newline"}
  IN  SubSeq(pw, 1, CHOOSE k \in kept : \A j \in kept : j <= k)

\* MUTANT: what was typed is not asked for again.
PromptOnce(confirm) == IF given.tty = Absent THEN Denied("no password", 0) ELSE Got(given.tty, 1)

Prompt(confirm) ==
  IF given.tty = Absent THEN Denied("no password", 0)
  ELSE IF ~confirm THEN Got(given.tty, 1)
  ELSE IF given.again # given.tty THEN Denied("mismatch", 2)
  ELSE Got(given.tty, 2)

\* MUTANT: a variable that is not text falls back to the prompt.
EnvironmentFallsBack(confirm) == IF given.env \in {Absent, NotUnicode} THEN Prompt(confirm) ELSE Got(given.env, 0)

Environment(confirm) ==
  IF given.env = Absent THEN Prompt(confirm)
  ELSE IF given.env = NotUnicode THEN Denied("not unicode", 0)
  ELSE Got(given.env, 0)

Password(confirm) ==
  IF given.argv # Absent THEN Got(given.argv, 0)
  ELSE IF given.file = Absent THEN Environment(confirm)
  ELSE IF given.file = Unreadable THEN Denied("io", 0)
  ELSE Got(Trimmed(given.file), 0)

Ask(confirm, next) ==
  LET answer == Password(confirm)
  IN  /\ log' = [log EXCEPT !.asked = answer.asked]
      /\ IF answer.error # "none" THEN Refuse(answer.error)
         ELSE run' = [run EXCEPT !.pc = next, !.pw = answer.pw]

---------------------------------------------------------------------------
(* The wrapper                                                             *)

\* MUTANT: only the memory is limited.
WithinLimitsMemory(kdf) == kdf.m <= MaxKdf.m

WithinLimits(kdf) == kdf.m <= MaxKdf.m /\ kdf.t <= MaxKdf.t /\ kdf.p <= MaxKdf.p
\* argon2's own limits.
Derivable(kdf) == kdf.p >= 1 /\ kdf.t >= 1 /\ kdf.m >= kdf.p

\* The header is the associated data.
Header(file) ==
  IF file.wrapper = "NXE3" THEN <<"NXE3", file.id, file.kdf, file.declared>> ELSE <<"NXE2", file.declared>>

\* seal and encrypt_with
Sealed(payload, pw, len) ==
  LET bare == [wrapper |-> "NXE3", id |-> Argon2id, kdf |-> DefaultKdf, declared |-> len, cut |-> "no",
               frame |-> NoFrame, bytes |-> Bytes("sealed", 0)]
  IN  [bare EXCEPT !.frame = [pw |-> pw, kdf |-> DefaultKdf, header |-> Header(bare), holds |-> payload]]

FileKdf(file) == IF file.wrapper = "NXE3" THEN file.kdf ELSE Nxe2Kdf

\* MUTANT: the header is not part of what the tag covers.
OpensBare(file, pw) == file.frame.pw = pw /\ file.frame.kdf = FileKdf(file)

Opens(file, pw) == file.frame.pw = pw /\ file.frame.kdf = FileKdf(file) /\ file.frame.header = Header(file)

\* What open refuses before any key is derived.
OpenError(file) ==
  IF file.cut = "header" THEN "truncated header"
  ELSE IF file.wrapper = "NXE3" /\ file.id # Argon2id THEN "unknown kdf"
  ELSE IF file.cut = "frame" THEN "too short"
  ELSE IF ~WithinLimits(FileKdf(file)) \/ ~Derivable(FileKdf(file)) THEN "kdf out of range"
  ELSE "none"

\* A file that holds what it was made of: an archive of an input of that
\* length, sealed with that password or in no wrapper at all. Below zero the
\* length says that no archive is in it.
Holds(file, len, pw) ==
  IF file.wrapper = "none" THEN file.bytes.magic = "NX15" => file.bytes.len = len
  ELSE /\ file.frame.pw = pw /\ pw # Absent
       /\ file.cut = "no" /\ file.frame.header = Header(file)
       /\ IF len >= 0
            THEN /\ OpenError(file) = "none" /\ file.frame.kdf = FileKdf(file)
                 /\ \/ file.frame.holds = Bytes("NX15", len)
                    \/ file.frame.holds.magic = "empty" /\ file.declared = 0 /\ len = 0
            ELSE file.frame.holds.magic # "NX15" /\ ~(file.frame.holds.magic = "empty" /\ file.declared = 0)

Typed     == Seq(STRING \ {"absent"})
Passwords == Typed \cup {Absent}
KdfType   == [m : Nat, t : Nat, p : Nat]
Payload   == [magic : {"NX15", "NXC1", "sealed", "empty", "junk"}, len : Int]
IsFile(file) ==
  /\ file = [wrapper |-> file.wrapper, id |-> file.id, kdf |-> file.kdf, declared |-> file.declared,
             cut |-> file.cut, frame |-> file.frame, bytes |-> file.bytes]
  /\ file.wrapper \in {"none", "NXE2", "NXE3"} /\ file.kdf \in KdfType /\ file.cut \in {"no", "header", "frame"}
  /\ file.bytes \in Payload /\ file.frame.holds \in Payload

\* This build can open what it seals, other releases sealed with costs it
\* allows, and no password is taken for the mark that there is none.
ASSUME CommandAssumption ==
  /\ Inputs \subseteq Nat /\ MaxRuns \in Nat
  /\ Costs \cup {Nxe2Kdf, DefaultKdf, MaxKdf} \subseteq KdfType
  /\ WithinLimits(DefaultKdf) /\ Derivable(DefaultKdf)
  /\ Given \subseteq [argv : Passwords, file : Passwords \cup {Unreadable}, env : Passwords \cup {NotUnicode}, tty : Passwords, again : Passwords]
  /\ \A l \in Legacy : IsFile(l.file) /\ l.len \in Int /\ l.pw \in Passwords /\ Holds(l.file, l.len, l.pw)

---------------------------------------------------------------------------
(* compress                                                                *)

StartCompress ==
  /\ run.pc \in {"idle", "ok", "err"} /\ left > 0
  /\ \E g \in Given, len \in Inputs, sealing \in BOOLEAN :
       /\ given' = g
       /\ run' = [Idle EXCEPT !.op = "compress", !.pc = IF sealing THEN "ask" ELSE "work", !.sealing = sealing, !.input = len]
  /\ left' = left - 1 /\ log' = Quiet
  /\ UNCHANGED <<archive, origin>>

\* MUTANT: the slow work comes first.
AskFirst ==
  /\ run.pc = "ask" /\ run.op = "compress"
  /\ LET answer == Password(TRUE)
     IN  /\ log' = [log EXCEPT !.asked = answer.asked, !.worked = TRUE]
         /\ IF answer.error # "none" THEN Refuse(answer.error)
            ELSE run' = [run EXCEPT !.pc = "work", !.pw = answer.pw]
  /\ UNCHANGED <<archive, origin, given, left>>

AskToSeal ==
  /\ run.pc = "ask" /\ run.op = "compress"
  /\ Ask(TRUE, "work")
  /\ UNCHANGED <<archive, origin, given, left>>

Compress ==
  /\ run.pc = "work"
  /\ run' = [run EXCEPT !.pc = IF run.sealing THEN "seal" ELSE "write", !.payload = Bytes("NX15", run.input)]
  /\ log' = [log EXCEPT !.worked = TRUE]
  /\ UNCHANGED <<archive, origin, given, left>>

\* An empty password is refused; the random source may fail.
Seal ==
  /\ run.pc = "seal"
  /\ \/ run.pw = << >> /\ Refuse("key too short") /\ UNCHANGED log
     \/ run.pw # << >> /\ Refuse("random source") /\ UNCHANGED log
     \/ run.pw # << >> /\ Goto("write") /\ log' = [log EXCEPT !.derived = @ \cup {DefaultKdf}]
  /\ UNCHANGED <<archive, origin, given, left>>

\* write_atomically
WriteArchive ==
  /\ run.pc = "write"
  /\ archive' = IF run.sealing THEN Sealed(run.payload, run.pw, run.input) ELSE Plain(run.payload)
  /\ origin' = [len |-> run.input, pw |-> run.pw, whole |-> TRUE]
  /\ Goto("ok")
  /\ UNCHANGED <<given, left, log>>

---------------------------------------------------------------------------
(* decompress and inspect                                                  *)

StartOpen ==
  /\ run.pc \in {"idle", "ok", "err"} /\ left > 0
  /\ \E g \in Given, op \in {"decompress", "inspect"} :
       /\ given' = g
       /\ run' = [Idle EXCEPT !.op = op, !.pc = "peel"]
  /\ left' = left - 1 /\ log' = Quiet
  /\ UNCHANGED <<archive, origin>>

\* MUTANT: a password is asked for whatever the file is.
PeelAsks ==
  /\ run.pc = "peel"
  /\ Ask(FALSE, IF archive.wrapper = "none" THEN "restore" ELSE "open")
  /\ UNCHANGED <<archive, origin, given, left>>

\* open_payload: a file without a wrapper needs no password.
Peel ==
  /\ run.pc = "peel"
  /\ IF archive.wrapper = "none"
       THEN run' = [run EXCEPT !.pc = "restore", !.payload = archive.bytes] /\ UNCHANGED log
       ELSE Ask(FALSE, "open")
  /\ UNCHANGED <<archive, origin, given, left>>

Open ==
  /\ run.pc = "open"
  /\ IF OpenError(archive) # "none" THEN Refuse(OpenError(archive)) /\ UNCHANGED log
     ELSE /\ log' = [log EXCEPT !.derived = @ \cup {FileKdf(archive)}]
          /\ IF Opens(archive, run.pw) THEN run' = [run EXCEPT !.pc = "restore", !.payload = archive.frame.holds]
             ELSE Refuse("decryption failed")
  /\ UNCHANGED <<archive, origin, given, left>>

\* MUTANT: an empty file is an empty archive.
IsSealedEmptyAlways == run.payload.magic = "empty" /\ archive.declared = 0
\* MUTANT: an empty payload is nothing an archive holds.
IsSealedEmptyNever == FALSE

IsSealedEmpty == archive.wrapper # "none" /\ run.payload.magic = "empty" /\ archive.declared = 0

\* The sealed empty file of older releases, a container, a format of
\* pre-release builds, or nothing this build knows.
Restore ==
  /\ run.pc = "restore"
  /\ \/ /\ IsSealedEmpty
        /\ Goto("ok") /\ log' = [log EXCEPT !.result = <<0>>]
     \/ /\ ~IsSealedEmpty /\ run.payload.magic = "NX15"
        /\ Goto("ok") /\ log' = [log EXCEPT !.result = <<run.payload.len>>]
     \/ /\ ~IsSealedEmpty /\ run.payload.magic # "NX15"
        /\ Refuse(IF run.payload.magic = "NXC1" THEN "pre-release" ELSE "unknown format") /\ UNCHANGED log
  /\ UNCHANGED <<archive, origin, given, left>>

\* Between two runs the file loses bytes, or bytes of its header change, or
\* of its frame, which then opens for nobody. A file with one wrapper's magic
\* in place of the other has its frame elsewhere.
Damaged(file) ==
  {[file EXCEPT !.cut = c] : c \in {"header", "frame"}}
    \cup {[file EXCEPT !.frame = NoFrame]}
    \cup {[file EXCEPT !.declared = n] : n \in Inputs \cup {9}}
    \cup {[file EXCEPT !.wrapper = IF @ = "NXE3" THEN "NXE2" ELSE "NXE3", !.frame = NoFrame]}
    \cup (IF file.wrapper = "NXE2" THEN {}
          ELSE {[file EXCEPT !.id = 2]} \cup {[file EXCEPT !.kdf = c] : c \in Costs})

DamageSealed ==
  /\ run.pc \in {"idle", "ok", "err"} /\ archive.wrapper # "none" /\ origin.whole
  /\ archive' \in Damaged(archive) \ {archive}
  /\ origin' = [origin EXCEPT !.whole = FALSE]
  /\ run' = Idle /\ log' = Quiet
  /\ UNCHANGED <<given, left>>

CommandInit ==
  /\ \E l \in Legacy : archive = l.file /\ origin = [len |-> l.len, pw |-> l.pw, whole |-> TRUE]
  /\ given \in {g \in Given : g.argv = Absent /\ g.file = Absent /\ g.env = Absent /\ g.tty = Absent}
  /\ run = Idle /\ left = MaxRuns /\ log = Quiet

CommandNext == StartCompress \/ AskToSeal \/ Compress \/ Seal \/ WriteArchive
          \/ StartOpen \/ Peel \/ Open \/ Restore \/ DamageSealed
CommandSpec == CommandInit /\ [][CommandNext]_commandVars

---------------------------------------------------------------------------
Opening == run.op \in {"decompress", "inspect"}
Over    == run.pc \in {"ok", "err"}

\* A sealed file comes back for the password it was sealed with, from any
\* source and under any release's wrapper, an empty input too; and nothing is
\* restored or shown of a file with a byte changed, for another password, or
\* of a plain file that is no container (open, is_sealed_empty, run).
OpensForItsPassword ==
  /\ (Opening /\ Over /\ origin.whole /\ archive.wrapper # "none" /\ run.pw = origin.pw /\ origin.len >= 0)
       => (run.pc = "ok" /\ log.result = <<origin.len>>)
  /\ (Opening /\ log.result # << >>) =>
       /\ log.result = <<origin.len>>
       /\ archive.wrapper # "none" => (origin.whole /\ run.pw = origin.pw)
       /\ archive.wrapper = "none" => archive.bytes.magic = "NX15"

\* No file makes the program derive a key at costs above the limit, or at all
\* before its header is whole and of a known kind; the terminal is used only
\* when nothing else names a password and the file needs one; and a password
\* is settled, typed twice alike, before the slow work and before anything is
\* sealed with it (derive_key, password, run).
AsksAndWorksInOrder ==
  /\ \A kdf \in log.derived : kdf.m <= MaxKdf.m /\ kdf.t <= MaxKdf.t /\ kdf.p <= MaxKdf.p
  /\ log.derived # {} /\ Opening => archive.cut = "no" /\ (archive.wrapper = "NXE3" => archive.id = Argon2id)
  /\ log.asked > 0 => /\ given.argv = Absent /\ given.file = Absent /\ given.env = Absent
                      /\ (run.op = "compress" => run.sealing) /\ (Opening => archive.wrapper # "none")
  /\ log.worked => (run.sealing <=> run.pw # Absent)
  /\ (run.op = "compress" /\ run.pc = "ok" /\ log.asked > 0) =>
       given.tty = given.again /\ archive.frame.pw = given.tty
=============================================================================
