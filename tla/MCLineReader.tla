---------------------------- MODULE MCLineReader ----------------------------
(***************************************************************************)
(* LineReader for TLC: the contents of the file.                           *)
(***************************************************************************)
EXTENDS LineReader

CONSTANTS MaxLen,   \* bound: bytes of a file of plain characters and newlines
          MaxMixed  \* bound: bytes after a byte order mark, with carriage returns

MCBOM == <<"b">>

\* Lengths around the borders of the blocks, and short texts of all bytes.
MCFiles ==
  BoundedSeq({"x", "n"}, MaxLen)
    \cup {p \o s : p \in {MCBOM, << >>}, s \in BoundedSeq({"x", "n", "r"}, MaxMixed)}
    \cup {s \o <<"r", "n", "r">> : s \in BoundedSeq({"x", "n"}, 6)}
=============================================================================
