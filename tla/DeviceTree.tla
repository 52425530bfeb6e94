----------------------------- MODULE DeviceTree ----------------------------
(***************************************************************************)
(* What the walk over the device tree should find, from the tree and not   *)
(* from its bytes, and that fdt_traverse does find it during the boot.     *)
(***************************************************************************)
EXTENDS Boot, SequencesExt

(***************************************************************************)
(* What a walk should find, from the tree and not from its bytes: for each *)
(* property that has a value, whether the value is one of the two names,   *)
(* and the address in the name of the node the property belongs to.        *)
(***************************************************************************)
UnitAddress(name) ==
  IF AT \notin Range(name) THEN 0
  ELSE LET digits == SubSeq(name, CHOOSE i \in DOMAIN name : name[i] = AT, Len(name))
           n == Len(digits)
       IN  SumSet({HexDigit(digits[i]) * 16 ^ (n - i) : i \in 2 .. n})

\* The innermost node that is open at token k.
Owner(k) ==
  LET Count(j, t) == Quantify(j .. k, LAMBDA i : tree.tokens[i].is = t)
  IN  Max({j \in 1 .. k : Count(j, FDT_BEGIN_NODE) > Count(j, FDT_END_NODE)})

Found(k) ==
  LET v == tree.tokens[k].value
  IN  <<IF IsPrefix(v, Ns16550a) THEN 1 ELSE IF IsPrefix(v, VirtioMmio) THEN 2 ELSE 0,
        UnitAddress(tree.tokens[Owner(k)].name)>>

\* The tokens before the first that is unknown: there the walk stops.
Legible == {k \in DOMAIN tree.tokens : \A j \in 1 .. k : tree.tokens[j].is \in Tokens}
HasValue(k) == tree.tokens[k].is = FDT_PROP /\ tree.tokens[k].value # <<>>

Expected ==
  LET ks == SetToSortSeq({k \in Legible : HasValue(k)}, <)
  IN  [i \in DOMAIN ks |-> Found(ks[i])]

(***************************************************************************)
(* fdt_traverse passes each property value to the callback, in the order   *)
(* of the tree, with the unit address of the node it belongs to, ends at   *)
(* the end of the block and reads nothing behind it; the parse of a name   *)
(* without '@', which looks behind the name, does no harm.                 *)
(***************************************************************************)
FdtExact ==
  /\ IsPrefix(calls, Expected) /\ reach < struct_size
  /\ pc = "virt_find_all_devices" =>
       IF Reverse(tree.magic) = FDT_MAGIC
       THEN calls = Expected /\ (Legible = DOMAIN tree.tokens => struct_ptr = struct_size)
       ELSE calls = <<>>
=============================================================================
