----------------------------- MODULE LogPromise -----------------------------
(***************************************************************************)
(* What the log promises its callers: the file only grows, every line is a *)
(* message somebody logged, no message is written twice, and the messages  *)
(* of one thread appear in the order in which it logged them.  Nothing is  *)
(* promised about messages that never appear.                              *)
(***************************************************************************)
EXTENDS Integers, Sequences

CONSTANTS Callers   \* the threads that call log_message()

VARIABLES issued,   \* issued[t]: how many messages t has logged
          file      \* the messages written: <<t, k>> is the k-th message of t

promise == <<issued, file>>

Init == issued = [t \in Callers |-> 0] /\ file = <<>>

Log(t) == issued' = [issued EXCEPT ![t] = @ + 1] /\ file' = file

Write(t) ==
    \E k \in 1 .. issued[t] :
        /\ \A i \in 1 .. Len(file) : file[i][1] = t => file[i][2] < k
        /\ file' = Append(file, <<t, k>>)
        /\ issued' = issued

Next == \E t \in Callers : Log(t) \/ Write(t)

Spec == Init /\ [][Next]_promise
=============================================================================
