------------------------------- MODULE NpTree -------------------------------
(***************************************************************************)
(* nptree.schema: a tree of NumPy arrays laid out in one flat buffer.      *)
(*                                                                         *)
(* A tree is its structure (which optree compares) and its leaves in the   *)
(* order in which tree_map() visits them.  An array is its dtype and its   *)
(* shape; byte k of leaf i, as call number c stores it, is Byte(c, i, k),  *)
(* so that a byte out of place is seen.  A layout leaf is the parsed form  *)
(* of the string "dtype.str TAB shape TAB offset": the dtype comes back    *)
(* through np.dtype(dtype.str), which is not the identity.                 *)
(*                                                                         *)
(* NumPy, optree, memoryview and bytearray are modelled from their use.    *)
(***************************************************************************)
EXTENDS Integers, Sequences, FiniteSetsExt

CONSTANTS
    Structures,   \* structures of the trees
    Dtypes,       \* dtypes of the arrays
    ItemSize,     \* dtype.itemsize
    Restored,     \* np.dtype(d.str) for a dtype d
    Castable,     \* dtypes whose arrays memoryview.cast("B") accepts
    Objects,      \* dtypes of references to Python objects
    Arrays,       \* arrays, as records of dtype and shape
    Alignments,   \* alignments given to build_nptree_layout()
    MaxLeaves,    \* bound: leaves of a tree
    MaxCalls      \* bound: calls after the layout is built

ASSUME NpTreeAssumption ==
    /\ ItemSize \in [Dtypes -> Nat]
    /\ Restored \in [Dtypes -> Dtypes]
    /\ \A d \in Dtypes : ItemSize[Restored[d]] = ItemSize[d]
    /\ Castable \subseteq Dtypes \ Objects /\ Objects \subseteq Dtypes
    /\ \A a \in Arrays : a.dtype \in Dtypes /\ a.shape \in Seq(Nat)
    /\ Alignments \subseteq Int /\ MaxLeaves \in Nat /\ MaxCalls \in Nat

VARIABLES
    tree,         \* the tree the layout is built from
    alignment,    \* the alignment it is built with
    layout,       \* the layout, NoLayout when there is none
    buf,          \* the caller's bytearray, NoBuffer when there is none
    held,         \* arrays of deserialize_nptree() are still views of buf
    calls,        \* calls so far
    last          \* the last call: what it was given and how it ended

vars == <<tree, alignment, layout, buf, held, calls, last>>

\* A leaf that is no np.ndarray.
NotArray == [dtype |-> "object", shape |-> <<-1>>]

NoLayout == <<>>
NoBuffer == <<-1>>
NoTree == [struct |-> "none", leaves |-> <<>>]

Trees == [struct : Structures,
          leaves : UNION {[1..n -> Arrays \cup {NotArray}] : n \in 1..MaxLeaves}]

\* Trees that differ from t in one leaf, or in the structure.
Variants(t) ==
    {t} \cup {[t EXCEPT !.leaves[i] = a] :
                 i \in DOMAIN t.leaves, a \in Arrays \cup {NotArray}}
        \cup {[t EXCEPT !.struct = s] : s \in Structures}

Byte(c, i, k) == 100 * c + 10 * i + k

-----------------------------------------------------------------------------
(* The layout *)

\* np.prod() of the first n elements of `shape', for every n.
Products(shape) ==
    LET prod[n \in 0..Len(shape)] == IF n = 0 THEN 1 ELSE shape[n] * prod[n - 1]
    IN  prod

\* int(np.prod(shape) * itemsize)
NBytes(d, shape) == Products(shape)[Len(shape)] * ItemSize[d]

AlignDown(offset, a) == (offset \div a) * a

\* (offset + alignment - 1) // alignment * alignment
Align(offset, a) == ((offset + a - 1) \div a) * a

\* alignment > 0 and alignment & (alignment - 1) == 0
PowerOfTwo(a) == a > 0 /\ \E n \in 0..a : 2^n = a

\* `offset' after the array at `offset'.
NextOffset(offset, arr, a) == Align(offset + NBytes(arr.dtype, arr.shape), a)

\* `offset' at each of the arrays.
Offsets(arrays, a) ==
    LET off[i \in 1..Len(arrays)] ==
            IF i = 1 THEN 0 ELSE NextOffset(off[i - 1], arrays[i - 1], a)
    IN  off

\* build_nptree_layout(): the layout, or the exception it raises.
build_nptree_layout(t, a) ==
    LET off == Offsets(t.leaves, a)
    IN  IF ~PowerOfTwo(a) THEN [exc |-> "ValueError"]
        ELSE IF NotArray \in {t.leaves[i] : i \in DOMAIN t.leaves} THEN [exc |-> "TypeError"]
        ELSE [exc |-> "none", struct |-> t.struct,
              leaves |-> [i \in DOMAIN t.leaves |->
                            [dtype |-> Restored[t.leaves[i].dtype],
                             shape |-> t.leaves[i].shape,
                             offset |-> off[i]]]]

\* `size' of _parse_arr_desc().
Size(desc) == NBytes(desc.dtype, desc.shape)

calc_buffer_size(l) ==
    Max({0} \cup {l.leaves[i].offset + Size(l.leaves[i]) : i \in DOMAIN l.leaves})

\* validate_layout() returns; it raises for any difference.
Validates(t, l) ==
    /\ t.struct = l.struct /\ Len(t.leaves) = Len(l.leaves)
    /\ \A i \in DOMAIN t.leaves :
          /\ t.leaves[i].dtype = l.leaves[i].dtype
          /\ t.leaves[i].shape = l.leaves[i].shape

-----------------------------------------------------------------------------
(* serialize_nptree() and deserialize_nptree() *)

SliceInsert(b, from, to, data) == SubSeq(b, 1, from) \o data \o SubSeq(b, from + 1, Len(b))

\* b[from:to] = data for a bytearray, which takes data of any length.
SliceAssign(b, from, to, data) ==
    LET lo == IF from < Len(b) THEN from ELSE Len(b)
        hi == IF to < Len(b) THEN (IF to > lo THEN to ELSE lo) ELSE Len(b)
    IN  SubSeq(b, 1, lo) \o data \o SubSeq(b, hi + 1, Len(b))

\* _serialize_leaf() of leaf i into b: the buffer and the exception it raises.
\* An array without bytes cannot be cast, nor can an array of some dtypes.
SerializeLeaf(b, arr, desc, i, c, views) ==
    LET data == [k \in 1..NBytes(arr.dtype, arr.shape) |-> Byte(c, i, k)]
        new  == SliceAssign(b, desc.offset, desc.offset + Size(desc), data)
    IN  IF Size(desc) = 0 THEN [buf |-> b, exc |-> "none"]
        ELSE IF arr = NotArray THEN [buf |-> b, exc |-> "AttributeError"]
        ELSE IF arr.dtype \notin Castable THEN [buf |-> b, exc |-> "ValueError"]
        ELSE IF data = <<>> THEN [buf |-> b, exc |-> "TypeError"]
        ELSE IF views /\ Len(new) # Len(b) THEN [buf |-> b, exc |-> "BufferError"]
        ELSE [buf |-> new, exc |-> "none"]

\* tree_map() of _serialize_leaf(): the buffer after each of the leaves.
SerializeLeaves(arrays, descs, b, c, views) ==
    LET leaf[i \in 0..Len(arrays)] ==
            IF i = 0 THEN [buf |-> b, exc |-> "none"]
            ELSE IF leaf[i - 1].exc # "none" THEN leaf[i - 1]
            ELSE SerializeLeaf(leaf[i - 1].buf, arrays[i], descs[i], i, c, views)
    IN  leaf

\* serialize_nptree() of t as call c into b, of which there may be views.
serialize_nptree(t, l, b, c, views) ==
    IF t.struct # l.struct \/ Len(t.leaves) # Len(l.leaves) \/ Len(b) < calc_buffer_size(l)
    THEN [buf |-> b, exc |-> "ValueError"]
    ELSE SerializeLeaves(t.leaves, l.leaves, b, c, views)[Len(t.leaves)]

LeafDataToSize(b, desc) == SubSeq(b, desc.offset + 1, Size(desc))

\* memoryview(buffer)[offset : offset + size]
LeafData(b, desc) == SubSeq(b, desc.offset + 1, desc.offset + Size(desc))

\* np.frombuffer() makes no arrays of references to objects, and none of items
\* without bytes, be the array itself empty or not.
Readable(d) == d \notin Objects /\ ItemSize[d] # 0

\* deserialize_nptree(): the arrays, or the exception it raises.
deserialize_nptree(l, b) ==
    IF Len(b) < calc_buffer_size(l) \/ \E i \in DOMAIN l.leaves : ~Readable(l.leaves[i].dtype)
    THEN [exc |-> "ValueError", leaves |-> <<>>]
    ELSE [exc |-> "none",
          leaves |-> [i \in DOMAIN l.leaves |->
                        [dtype |-> l.leaves[i].dtype, shape |-> l.leaves[i].shape,
                         data |-> LeafData(b, l.leaves[i])]]]

-----------------------------------------------------------------------------
(* A caller that builds one layout and uses it with one buffer *)

Idle == [op |-> "none", tree |-> NoTree, exc |-> "none"]

Init ==
    /\ tree \in Trees /\ alignment \in Alignments
    /\ layout = NoLayout /\ buf = NoBuffer /\ held = FALSE
    /\ calls = 0 /\ last = Idle

Build ==
    /\ layout = NoLayout /\ last = Idle
    /\ LET r == build_nptree_layout(tree, alignment) IN
         /\ layout' = IF r.exc = "none" THEN r ELSE NoLayout
         /\ last' = [op |-> "build", tree |-> tree, exc |-> r.exc]
    /\ UNCHANGED <<tree, alignment, buf, held, calls>>

\* A bytearray of the caller's own, `spare' bytes longer than need be.
Allocate(spare) ==
    /\ layout # NoLayout /\ buf = NoBuffer
    /\ buf' = [k \in 1..(calc_buffer_size(layout) + spare) |-> 0]
    /\ UNCHANGED <<tree, alignment, layout, held, calls, last>>

Call ==
    /\ layout # NoLayout /\ calls < MaxCalls
    /\ calls' = calls + 1
    /\ UNCHANGED <<tree, alignment, layout>>

\* Into the caller's buffer: what was written before an exception stays.
Serialize(t) ==
    /\ Call /\ buf # NoBuffer
    /\ LET r == serialize_nptree(t, layout, buf, calls + 1, held) IN
         /\ buf' = r.buf
         /\ last' = [op |-> "serialize", tree |-> t, exc |-> r.exc]
    /\ UNCHANGED held

\* buffer=None: a new buffer, which the caller uses from then on.
SerializeNew(t) ==
    /\ Call
    /\ LET zero == [k \in 1..calc_buffer_size(layout) |-> 0]
           r == serialize_nptree(t, layout, zero, calls + 1, FALSE) IN
         /\ buf' = IF r.exc = "none" THEN r.buf ELSE buf
         /\ held' = (held /\ r.exc # "none")
         /\ last' = [op |-> "serialize_new", tree |-> t, exc |-> r.exc]

\* The arrays are views: they keep the buffer from being resized.
Deserialize ==
    /\ Call /\ buf # NoBuffer
    /\ LET r == deserialize_nptree(layout, buf) IN
         /\ held' = (held \/ r.exc = "none")
         /\ last' = [op |-> "deserialize", tree |-> NoTree, exc |-> r.exc]
    /\ UNCHANGED buf

\* The caller lets go of the arrays.
Drop ==
    /\ held /\ held' = FALSE
    /\ UNCHANGED <<tree, alignment, layout, buf, calls, last>>

Next ==
    \/ Build \/ Deserialize \/ Drop
    \/ \E n \in {0, 2} : Allocate(n)
    \/ \E t \in Variants(tree) : Serialize(t) \/ SerializeNew(t)

Spec == Init /\ [][Next]_vars

-----------------------------------------------------------------------------
(* Properties *)

\* The bytes of the buffer that leaf i has.
LeafBytes(l, i) ==
    (l.leaves[i].offset + 1)..(l.leaves[i].offset + Size(l.leaves[i]))

\* build_nptree_layout() gives every array bytes of its own, aligned, and
\* calc_buffer_size() holds them all, with less than one alignment to spare
\* (an empty array at the end counts with its offset).
LayoutSound ==
    layout # NoLayout =>
        LET leaves == DOMAIN layout.leaves
            used == UNION {LeafBytes(layout, i) : i \in leaves}
        IN  /\ \A i, j \in leaves : i # j => LeafBytes(layout, i) \cap LeafBytes(layout, j) = {}
            /\ \A i \in leaves : layout.leaves[i].offset % alignment = 0
            /\ calc_buffer_size(layout) - Max({0} \cup used) \in 0..alignment-1

\* After serialize_nptree() has returned for a tree that validate_layout()
\* accepts, deserialize_nptree() gives the same arrays, whatever calls, failed
\* ones and ones with other trees included, the buffer has been through.  It
\* raises for one kind of tree only: an array without bytes, which
\* serialize_nptree() passes over, of a dtype that np.frombuffer() refuses.
RoundTrip ==
    last.op \in {"serialize", "serialize_new"} /\ last.exc = "none"
    /\ Validates(last.tree, layout) =>
        LET r == deserialize_nptree(layout, buf)
            given == last.tree.leaves
        IN  \/ /\ r.exc = "none"
               /\ r.leaves = [i \in DOMAIN given |->
                                LET a == given[i] IN
                                [dtype |-> a.dtype, shape |-> a.shape,
                                 data |-> [k \in 1..NBytes(a.dtype, a.shape) |->
                                             Byte(calls, i, k)]]]
            \/ /\ r.exc = "ValueError"
               /\ \E i \in DOMAIN given : /\ NBytes(given[i].dtype, given[i].shape) = 0
                                          /\ ~Readable(given[i].dtype)

\* Serializing such a tree into a buffer leaves the length of the buffer and
\* the bytes that belong to no leaf as they were, even when it raises half way.
OnlyLeavesWritten ==
    [][calls' # calls /\ last'.op = "serialize" /\ Validates(last'.tree, layout) =>
          /\ Len(buf') = Len(buf)
          /\ \A k \in DOMAIN buf :
                (\A i \in DOMAIN layout.leaves : k \notin LeafBytes(layout, i))
                    => buf'[k] = buf[k]]_vars
=============================================================================
