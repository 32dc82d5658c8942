-------------------------- MODULE SequenceCounter ---------------------------
(***************************************************************************)
(* The sequence number of a frame and the meta data that carry it.         *)
(*                                                                         *)
(* A frame does not carry its 64-bit sequence number but the number of its *)
(* cycle, cut to 32 bits, and its place in the cycle.                      *)
(***************************************************************************)
EXTENDS Integers

CONSTANTS FramesPerCycle,   \* num_frames_per_cycle
          CycleMod          \* cycle_counter is a uint32_t: 2^32 values

ASSUME CounterAssumption == FramesPerCycle \in Nat \ {0} /\ CycleMod \in Nat \ {0}

\* Mutant: the place in the cycle is taken modulo the number of cycles.
to_meta_data_swapped(seq) ==
    [frame_counter |-> seq \div FramesPerCycle % CycleMod, cycle_counter |-> seq % FramesPerCycle]

sequence_counter_to_meta_data(seq) ==
    [frame_counter |-> seq % FramesPerCycle,
     cycle_counter |-> (seq \div FramesPerCycle) % CycleMod]

meta_data_to_sequence_counter(meta) ==
    meta.cycle_counter * FramesPerCycle + meta.frame_counter

\* After SeqMod frames the numbers that are read back start again at 0, while
\* the counters of sender and receiver go on.
SeqMod == CycleMod * FramesPerCycle
=============================================================================
