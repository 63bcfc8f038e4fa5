------------------------------ MODULE MCNpTree ------------------------------
(***************************************************************************)
(* Instances of NpTree for TLC.                                            *)
(***************************************************************************)
EXTENDS NpTree, TLC

CONSTANTS s1, s2

StructureSymmetry == Permutations(Structures)

\* Bytes, native and big-endian 16-bit integers, a structured dtype of three
\* bytes and the void dtype that its dtype.str stands for, references to objects
\* and strings of no characters.
MCDtypes == {"u1", "i2", ">i2", "record", "V3", "O", "S0"}

MCItemSize == [d \in MCDtypes |->
    CASE d = "S0" -> 0 [] d = "u1" -> 1 [] d \in {"i2", ">i2"} -> 2 [] OTHER -> 3]

MCRestored == [d \in MCDtypes |-> IF d = "record" THEN "V3" ELSE d]

MCArrays ==
    {[dtype |-> "u1", shape |-> s] : s \in {<<>>, <<3>>, <<0, 2>>}}
    \cup {[dtype |-> "i2", shape |-> s] : s \in {<<2>>, <<2, 1>>}}
    \cup {[dtype |-> ">i2", shape |-> <<2>>], [dtype |-> "record", shape |-> <<1>>]}
    \cup {[dtype |-> "O", shape |-> s] : s \in {<<0>>, <<1>>}}
    \cup {[dtype |-> "S0", shape |-> <<2>>]}
=============================================================================
