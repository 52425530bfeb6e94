-------------------------------- MODULE Fdt --------------------------------
(***************************************************************************)
(* The walk over the flattened device tree (src/kernel/dtb.c, with the     *)
(* helpers of src/kernel/utils.c): fdt_traverse goes through the structure *)
(* block token by token, takes the unit address of each node from its name *)
(* and hands each property value to dtb_callback.                          *)
(*                                                                         *)
(* The block is a sequence of bytes, struct_ptr an offset into it; the     *)
(* block begins at a multiple of four.  A 32-bit number is the sequence of *)
(* its bytes, the lowest first.                                            *)
(***************************************************************************)
EXTENDS Integers, Sequences, Functions, FiniteSetsExt

CONSTANTS
  Trees,       \* device trees: [magic : four bytes, tokens : a sequence]
  Ns16550a,    \* the two names dtb_callback looks for, with their NUL
  VirtioMmio

VARIABLES
  tree, block, \* the tree that the firmware left in memory; its structure block
  walking,     \* is fdt_traverse in its loop?
  struct_ptr,
  addr,        \* the unit address of the node that was begun last
  calls,       \* what dtb_callback returned, and addr then (ghost)
  reach        \* the highest offset that was read (ghost)

fdt == <<tree, block, walking, struct_ptr, addr, calls, reach>>

NUL == 0
AT == 64
NEWLINE == 10

FDT_BEGIN_NODE == 1
FDT_END_NODE == 2
FDT_PROP == 3
FDT_NOP == 4
FDT_END == 9
FDT_MAGIC == <<237, 254, 13, 208>>

-----------------------------------------------------------------------------
(***************************************************************************)
(* The format: a token is a word, a name ends in NUL, a property has its   *)
(* length and the offset of its name before its value, and all of them are *)
(* filled up to words.  Words are big-endian.                              *)
(***************************************************************************)
Word(n) == <<0, 0, 0, n>>
Padded(s) == s \o [i \in 1 .. (-Len(s)) % 4 |-> NUL]

Encode(tok) ==
  CASE tok.is = FDT_BEGIN_NODE -> Word(FDT_BEGIN_NODE) \o Padded(tok.name \o <<NUL>>)
    [] tok.is = FDT_PROP -> Word(FDT_PROP) \o Word(Len(tok.value)) \o Word(7) \o Padded(tok.value)
    [] OTHER -> Word(tok.is)

\* The tokens, one behind the other.
Blob(tokens) == MapThenFoldSet(\o, <<>>, LAMBDA k : Encode(tokens[k]), Min, DOMAIN tokens)

struct_size == Len(block)

\* The byte at offset i; the strings after the block are not tracked.
Byte(i) == IF i < struct_size THEN block[i + 1] ELSE NUL
Load(p) == <<Byte(p), Byte(p + 1), Byte(p + 2), Byte(p + 3)>>

-----------------------------------------------------------------------------
BE2LE(be) == [k \in 1 .. 4 |-> be[5 - k]]

\* The value of a number below 2^24.
Value(w) == w[1] + 256 * w[2] + 65536 * w[3]

align_mem_offset(i, align) == (align - (i % align)) % align

string_len(str) == Min({i \in 0 .. struct_size : Byte(str + i) \in {NUL, NEWLINE}})

\* Zero when the first len bytes agree.  (No value has more bytes than a name
\* that it begins with: the code would go on to what lies behind the name.)
string_comp_l(str, name, len) ==
  LET Differ == {i \in 0 .. (len - 1) : i >= Len(name) \/ Byte(str + i) # name[i + 1]}
  IN  IF Differ = {} THEN 0
      ELSE IF Byte(str + Min(Differ)) > name[Min(Differ) + 1] THEN 1 ELSE -1

dtb_callback(str, len) ==
  IF string_comp_l(str, Ns16550a, len) = 0 THEN 1
  ELSE IF string_comp_l(str, VirtioMmio, len) = 0 THEN 2
  ELSE 0

HexDigit(c) ==
  CASE c \in 48 .. 57 -> c - 48
    [] c \in 97 .. 102 -> c - 97 + 10
    [] c \in 65 .. 70 -> c - 65 + 10
    [] OTHER -> -1

\* The address so far is shifted before the next character is looked at.
Hex[p \in Nat, a \in Nat] ==
  IF Byte(p) = NUL THEN a
  ELSE IF HexDigit(Byte(p)) = -1 THEN 16 * a
  ELSE Hex[p + 1, 16 * a + HexDigit(Byte(p))]

\* Where the search for '@' stops.
AtOrEnd(name) == name + Min({i \in 0 .. struct_size : Byte(name + i) \in {AT, NUL}})

\* A faulty variant: the character after the name is skipped, too.
parse_dtb_unit_name_Skip2(name) == Hex[AtOrEnd(name) + 2, 0]

\* After a name without '@' the search goes on behind its NUL.
parse_dtb_unit_name(name) == Hex[AtOrEnd(name) + 1, 0]

-----------------------------------------------------------------------------
FdtInit ==
  /\ tree \in Trees
  /\ block = Blob(tree.tokens)
  /\ walking = FALSE /\ struct_ptr = 0 /\ addr = 0
  /\ calls = <<>> /\ reach = -1

\* The call, up to the loop.
FdtCall ==
  /\ walking' = (BE2LE(tree.magic) = FDT_MAGIC)
  /\ struct_ptr' = 0 /\ addr' = 0
  /\ UNCHANGED <<tree, block, calls, reach>>

Token == Value(BE2LE(Load(struct_ptr)))

Aligned(p) == p + align_mem_offset(p, 4)

BeginNode ==
  LET name == struct_ptr + 4
  IN  /\ Token = FDT_BEGIN_NODE
      /\ addr' = parse_dtb_unit_name(name)
      /\ struct_ptr' = Aligned(name + string_len(name) + 1)
      /\ reach' = Max({reach, AtOrEnd(name) + 1, name + string_len(name)})
      /\ UNCHANGED <<walking, calls>>

Property ==
  LET prop_len == Value(BE2LE(Load(struct_ptr + 4)))
      value == struct_ptr + 12
  IN  /\ Token = FDT_PROP
      /\ calls' = IF prop_len > 0
                  THEN Append(calls, <<dtb_callback(value, prop_len), addr>>)
                  ELSE calls
      /\ struct_ptr' = Aligned(value + prop_len)
      /\ reach' = Max({reach, value + prop_len - 1})
      /\ UNCHANGED <<walking, addr>>

\* A faulty variant: the pointer is not moved past the token.
NoData_Stay ==
  /\ Token \in {FDT_NOP, FDT_END_NODE, FDT_END}
  /\ UNCHANGED <<walking, struct_ptr, addr, calls, reach>>

NoData ==
  /\ Token \in {FDT_NOP, FDT_END_NODE, FDT_END}
  /\ struct_ptr' = struct_ptr + 4
  /\ reach' = Max({reach, struct_ptr + 3})
  /\ UNCHANGED <<walking, addr, calls>>

Tokens == {FDT_BEGIN_NODE, FDT_END_NODE, FDT_PROP, FDT_NOP, FDT_END}

UnknownToken ==
  /\ Token \notin Tokens
  /\ walking' = FALSE
  /\ UNCHANGED <<struct_ptr, addr, calls, reach>>

LoopEnds ==
  /\ struct_ptr >= struct_size
  /\ walking' = FALSE
  /\ UNCHANGED <<struct_ptr, addr, calls, reach>>

FdtStep ==
  /\ walking
  /\ \/ struct_ptr < struct_size /\ (BeginNode \/ Property \/ NoData \/ UnknownToken)
     \/ LoopEnds
  /\ UNCHANGED <<tree, block>>

=============================================================================
