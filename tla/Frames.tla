------------------------------- MODULE Frames -------------------------------
(***************************************************************************)
(* The frames of a traffic class, and queues of them.                      *)
(***************************************************************************)
EXTENDS SequenceCounter, Sequences

NONE == -1   \* the number of no frame
TINY == 9    \* stands for a length below that of a VLAN Ethernet header

\* seq is the frame's real number, for the properties only.  short counts the
\* VLAN headers by which the frame is shorter than frame_length.
Meta == [frame_counter : Int, cycle_counter : Int]
AnyFrame == [seq : Int, meta : Meta, tag : BOOLEAN, short : Int,
             type : BOOLEAN, id : BOOLEAN, pay : BOOLEAN]

\* The numbers of the class's frames in a queue.
Numbers(q) == {q[i].seq : i \in DOMAIN q} \ {NONE}

\* The class's frames are in a queue in the order of their numbers.
Ascending(q) ==
    \A i, j \in DOMAIN q :
        (i < j /\ q[i].seq # NONE /\ q[j].seq # NONE) => q[i].seq < q[j].seq
=============================================================================
