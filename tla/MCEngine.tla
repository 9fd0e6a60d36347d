------------------------------ MODULE MCEngine ------------------------------
(***************************************************************************)
(* Small instances of Engine.  A window of two clock units gives a span     *)
(* room to be on time, late, or ahead of the receiver's clock.             *)
(***************************************************************************)
EXTENDS Engine, TLC

CONSTANTS r1, r2

Otlp(t) == [event |-> t, ebpf |-> FALSE]
Ebpf(t) == [event |-> t, ebpf |-> TRUE]

\* An eBPF span whose agent's clock is behind, and two OTLP spans, one of
\* them old.
MixedBatches == {<<Ebpf(0)>>, <<Otlp(0), Otlp(3)>>}

OneSpan == {<<Ebpf(0)>>, <<Otlp(None)>>}

Interchangeable == Permutations(Requests)
=============================================================================
