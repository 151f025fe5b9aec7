----------------------------- MODULE MCInbound -----------------------------
(* Two peers whose deliveries depend on each other across logs.            *)
EXTENDS Inbound

CONSTANTS a, b, o

\* b1 was written after a1, and a2 after b1.
CrossNeeds(d) ==
    CASE d = <<a, 2>> -> {<<a, 1>>, <<b, 1>>}
      [] d = <<b, 1>> -> {<<a, 1>>}
      [] OTHER -> {}

MCMaxSequence == [p \in {a, b, o} |-> IF p = o THEN 1 ELSE 2]

\* b2 has no dependencies and cannot be applied.
MCMalformed == {<<b, 2>>}

============================================================================
