--------------------------- MODULE MCCodecSelect ---------------------------
(***************************************************************************)
(* Blocks at the thresholds of the selector.                               *)
(***************************************************************************)
EXTENDS CodecSelect

M(len, entropy, ascii, unique, run, corr, var) ==
  [len |-> len, entropy |-> entropy, ascii |-> ascii, unique |-> unique, run |-> run,
   corr |-> corr, var |-> var]

Plain(m)       == [plain |-> m, bcj |-> m, x86 |-> FALSE]
Filtered(m, n) == [plain |-> m, bcj |-> n, x86 |-> TRUE]

Empty   == M(0, 0, 0, 0, 0, 0, 0)
Text    == M(32768, 50, 97, 60, 3, 10, 500)
Random  == M(256, 76, 38, 256, 2, 0, 5000)
Runs    == M(256, 10, 84, 4, 30, 90, 100)
Samples == M(4096, 70, 20, 250, 4, 70, 4000)
Code    == M(300, 60, 40, 180, 9, 20, 2000)
CodeBig == M(300, 60, 40, 210, 9, 20, 3500)
Tiny    == M(120, 60, 35, 90, 2, 10, 2500)

\* One job, three to five candidates.
MCPlain == {Plain(m) : m \in {Empty, Text, Random, Runs, Samples}}
\* Two jobs; the filter may change which candidates the data has.
MCCode  == {Filtered(Code, Code), Filtered(Tiny, Tiny), Filtered(Tiny, Random),
            Filtered(Code, [Tiny EXCEPT !.entropy = 76]), Filtered(Text, Text)}
MCBlocks == MCPlain \cup MCCode
=============================================================================
