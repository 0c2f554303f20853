--------------------------- MODULE MCStagedOutput ---------------------------
(***************************************************************************)
(* Small instances of StagedOutput: two runs, or one with more of the      *)
(* environment, over two or three paths.                                   *)
(***************************************************************************)
EXTENDS StagedOutput, TLC

CONSTANTS p1, p2, fa, fb, fc, fd, nobody

MCTwo   == {p1, p2}
MCOne   == {p1}
\* Paths "a" <- "b" <- "c": where there are links, b points at a and c at b.
MCPaths2 == {"a", "b"}
MCPaths3 == {"a", "b", "c"}
MCFileAt2 == ("a" :> fa @@ "b" :> fb)
MCFileAt3 == ("a" :> fa @@ "b" :> fb @@ "c" :> fc)
MCLinkTo2 == ("a" :> "a" @@ "b" :> "a")
MCLinkTo3 == ("a" :> "a" @@ "b" :> "a" @@ "c" :> "b")
\* a is a file, read-only or not, or nothing; b is a link to it or a file.
MCKindsStaged == ("a" :> {"file", "absent"} @@ "b" :> {"file", "link"})
\* Anything at all at a, and a link or nothing at b.
MCKindsAny == ("a" :> {"file", "absent", "device"} @@ "b" :> {"link", "absent"})
\* A link to a link to a file.
MCKindsChain == ("a" :> {"file"} @@ "b" :> {"link"} @@ "c" :> {"link"})
MCKindsOneLink == ("a" :> {"file"} @@ "b" :> {"link"})
=============================================================================
