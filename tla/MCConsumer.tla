------------------------------ MODULE MCConsumer -----------------------------
(* Small instances of Consumer for TLC. *)
EXTENDS ConsumerProperties, TLC

CONSTANTS a, b,         \* replicas
          s, bad        \* signals

One == {a}
Pair == {a, b}
Mixed == {s, bad}
Bad == {bad}
Single == {s}
None == {}
==============================================================================
