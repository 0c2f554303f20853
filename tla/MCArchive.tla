------------------------------ MODULE MCArchive ------------------------------
(* The archive, beside the codecs and the library: its container, written and  *)
(* parsed, or the runs of the command line that seal it and open it.  One part *)
(* of all is chosen at the start and runs alone; the others stay as they were. *)
EXTENDS MCLibrary, Command, Container
vars == <<codecVars, commandVars, containerVars>>

---------------------------------------------------------------------------
(* Container: inputs of no, one and three blocks, files that lose or win from  *)
(* a byte to a footer and more, and files that declare what no writer would.   *)

MCHead(codec, orig, comp) == [codec |-> codec, orig |-> orig, comp |-> comp]
MCHeads == {MCHead(c, o, k) : c \in {0, 8}, o \in {0, 1, 4}, k \in {0, 2, 100}}
MCStrange ==
  [magic : {"NX13", "NX14"}, len : {0, 16, 30, 32, 44, 47, 48, 62, 64, 76, 78, 80, 110}, declared : {0, 1, 4, 5, 8, 900},
   count : {0, 1, 2, 9}, heads : {<<a, b>> : a \in MCHeads, b \in {MCHead(0, 1, 0), MCHead(0, 4, 2)}}]
    \cup [magic : {"GZIP"}, len : {0, 49}, declared : {0}, count : {0}, heads : {<< >>}]

MCLanes ==
  LET lane == [symbols : 0..3, coded : {0, 5}]
  IN  {<< >>} \cup {<<a>> : a \in lane} \cup {<<a, b>> : a, b \in lane}
        \cup {<<a, b, [symbols |-> c, coded |-> 5]>> : a, b \in lane, c \in 0..2}
MCPayload(payloads, expected) == [payload : payloads, expected : expected]
MCPayloads ==
  MCPayload([kind : {"delta"}, declared : {5, 4}, lanes : MCLanes,
             len : {0, 6, 1043, 2070, 2075, 2080, 3102, 3112, 3117}], {0, 5}) \cup
  MCPayload([kind : {"lz77"}, tokens : {0, 2, 3, 9}, len : {0, 8, 16, 19, 27, 30},
             blocks : {<< >>} \cup [1..1 -> [tokens : {0, 2}, bytes : {3}]] \cup [1..2 -> [tokens : 0..2, bytes : {0, 3}]]],
            {0, 3, 5}) \cup
  MCPayload([kind : {"runs"}, declared : {0, 5}, len : {0, 9, 10, 13, 14}, mode : {0, 1}, runs : {0, 5, 6}], {0, 5}) \cup
  MCPayload([kind : {"plain", "first"}, declared : {0, 5}, len : {0, 5}], {0, 5})

MCInputLengths == {0, 1, 4, 5, 8, 11}
MCPacked == {0, 1, 14}
MCCuts == {-33, -32, -14, -1, 1, 14, 32}

---------------------------------------------------------------------------
(* Command: one password and another, one that ends in a newline, none at all, *)
(* from every source; costs on both sides of every limit.                      *)

MCSizes == {0, 3}
PwX == <<"x">>
PwY == <<"y">>
PwNewline == <<"x", "newline">>
None == <<"absent">>
Kdf(m, t, p) == [m |-> m, t |-> t, p |-> p]
MCNxe2Kdf    == Kdf(1, 1, 1)
MCDefaultKdf == Kdf(2, 1, 1)
MCMaxKdf     == Kdf(2, 2, 2)
MCCosts == {MCNxe2Kdf, MCDefaultKdf, MCMaxKdf, Kdf(3, 1, 1), Kdf(1, 3, 1), Kdf(2, 2, 3), Kdf(0, 1, 1), Kdf(1, 0, 1)}
MCGiven ==
  [argv : {None, PwX}, file : {None, <<"unreadable">>, PwNewline, <<"newline">>},
   env : {None, <<"not unicode">>, PwX, PwNewline}, tty : {None}, again : {None}]
    \cup [argv : {None}, file : {None}, env : {None, <<"not unicode">>}, tty : {PwX, PwY, << >>}, again : {PwX, PwY, << >>}]

\* An NXE2 file, as older releases wrote it, of that payload.
MCNxe2(magic, declared, len) ==
  [len |-> len, pw |-> PwX,
   file |-> [wrapper |-> "NXE2", id |-> 0, kdf |-> MCNxe2Kdf, declared |-> declared, cut |-> "no",
             frame |-> [pw |-> PwX, kdf |-> MCNxe2Kdf, header |-> <<"NXE2", declared>>,
                        holds |-> [magic |-> magic, len |-> declared]],
             bytes |-> [magic |-> "sealed", len |-> 0]]]
MCPlain(magic) ==
  [len |-> 0, pw |-> None,
   file |-> [wrapper |-> "none", id |-> 0, kdf |-> MCNxe2Kdf, declared |-> 0, cut |-> "no",
             frame |-> [pw |-> None, kdf |-> MCNxe2Kdf, header |-> << >>, holds |-> [magic |-> "empty", len |-> 0]],
             bytes |-> [magic |-> magic, len |-> 0]]]
\* Among them files that hold no archive: their length is none.
MCLegacy ==
  {MCNxe2("empty", 0, 0), MCNxe2("NX15", 3, 3), MCNxe2("empty", 5, -1), MCNxe2("NXC1", 5, -1)}
    \cup {MCPlain(magic) : magic \in {"empty", "NXC1", "junk"}}

---------------------------------------------------------------------------
NoCommand ==
  /\ archive = Nothing /\ origin = [len |-> 0, pw |-> Absent, whole |-> TRUE]
  /\ given = 0 /\ run = Idle /\ left = 0 /\ log = Quiet
NoContainer ==
  /\ file = << >> /\ honest = << >> /\ block = NoBlock
  /\ read = [status |-> "start", pos |-> 0, blocks |-> << >>, reserved |-> 0]
NoCodec     == data = << >> /\ enc = 0 /\ dec = 0 /\ more = 0 /\ at = 0 /\ tokens = 0

Init ==
  \/ (CodecInit \/ LibraryInit) /\ NoCommand /\ NoContainer
  \/ part = "layout" /\ ContainerInit /\ NoCommand /\ NoCodec
  \/ part = "line" /\ CommandInit /\ NoContainer /\ NoCodec

BytesNext  == (CodecNext \/ LibraryNext) /\ UNCHANGED <<commandVars, containerVars>>
LayoutNext == part = "layout" /\ ContainerNext /\ UNCHANGED <<codecVars, commandVars>>
LineNext   == part = "line" /\ CommandNext /\ UNCHANGED <<codecVars, containerVars>>
Next == BytesNext \/ LayoutNext \/ LineNext
Spec == Init /\ [][Next]_vars
=============================================================================
