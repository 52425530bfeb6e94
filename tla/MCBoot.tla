------------------------------- MODULE MCBoot ------------------------------
(***************************************************************************)
(* Boot for TLC: two virtio slots, heaps that are too small at any of the  *)
(* allocations and ones that are not, and device trees with names of each  *)
(* length modulo four, with and without '@', values of each length modulo  *)
(* four, empty values, NOPs, nested nodes, an unknown token and a wrong    *)
(* magic number.                                                           *)
(***************************************************************************)
EXTENDS DeviceTree

MCIndex == {0, 1, 2, 3, 128, 258}
MCHeapSizes == 0 .. 7

\* "ns" and "vio" stand for the two names.
MCNs16550a == <<110, 115, NUL>>
MCVirtioMmio == <<118, 105, 111, NUL>>

Begin(name) == [is |-> FDT_BEGIN_NODE, name |-> name]
Prop(value) == [is |-> FDT_PROP, value |-> value]
Only(t) == <<[is |-> t]>>

\* A root without a name, with a property and up to two nodes in it, the
\* second inside the first or after it.
Names == {<<115>>, <<115, 99>>, <<115, 111, 99>>, <<115, 111, 99, 49>>,
          <<117, AT, 49, 97>>, <<118, AT, 70>>, <<AT, 48>>}
Values == {<<>>, <<5>>, <<0, 0, 0, 9>>, <<110, 115, NUL>>, <<118, 105, 111, NUL>>,
           <<118, 105, 120, 111, NUL>>}

Nested(n1, v1, n2, v2) ==
  <<Begin(<<>>), Prop(v2), Begin(n1), Prop(v1), Begin(n2), Prop(v2)>> \o Only(FDT_END_NODE)
    \o Only(FDT_NOP) \o Only(FDT_END_NODE) \o Only(FDT_END_NODE) \o Only(FDT_END)
Siblings(n1, v1, n2, v2) ==
  <<Begin(<<>>), Begin(n1), Prop(v1), Prop(v2)>> \o Only(FDT_END_NODE)
    \o Only(FDT_NOP) \o <<Begin(n2), Prop(v2)>> \o Only(FDT_END_NODE)
    \o Only(FDT_END_NODE) \o Only(FDT_END)

Swapped == <<208, 13, 254, 237>>

MCTrees ==
  {[magic |-> Swapped, tokens |-> Nested(n, v, <<117, AT, 49, 97>>, <<110, 115, NUL>>)] :
      n \in Names, v \in Values}
  \cup {[magic |-> Swapped, tokens |-> Siblings(n, <<118, 105, 111, NUL>>, <<115, 111, 99>>, v)] :
          n \in Names, v \in Values}
  \cup {[magic |-> Swapped, tokens |-> <<Begin(<<115>>), Prop(<<5>>)>> \o Only(5) \o <<Prop(<<5>>)>>]}
  \cup {[magic |-> FDT_MAGIC, tokens |-> Siblings(<<115>>, <<>>, <<AT, 48>>, <<>>)]}
=============================================================================
