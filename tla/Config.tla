------------------------------- MODULE Config -------------------------------
(***************************************************************************)
(* The configuration of the testbench (apps/testbench/config.c, config.h): *)
(* config_init() sets the defaults and reads the YAML file token by token, *)
(* the queues of the enabled classes are handed out, and config_deinit()   *)
(* frees the strings.  A file is a sequence of entries, each a key with    *)
(* the scalars that follow it: none (a section), one, or a list.           *)
(***************************************************************************)
EXTENDS TrafficClasses, Sequences, FiniteSets
LOCAL INSTANCE FiniteSetsExt

CONSTANTS Classes,       \* the traffic classes that are looked at
          SecureClasses, \* those of them with a security mode
          FileKeys,      \* the keys that a file may hold
          Scalars,       \* the values that a file may hold
          MaxEntries,    \* bound on the entries of a file
          MaxScalars,    \* bound on the scalars of an entry
          MIN_WAIT_TIME,
          MAX_QUEUES_ENABLED,
          DefaultLength  \* the *_frame_length of config_set_defaults()

L2 == 9

\* What the constants have to be.
ConfigAssumption ==
    /\ Classes \subseteq PnClasses \cup {L2} /\ SecureClasses \subseteq Classes
    /\ Scalars \subseteq {"0", "1", "2", "xx"}
    /\ MaxEntries \in Nat /\ MaxScalars \in Nat

BoolKeys   == {"Enabled", "SecurityMode"} \X Classes
NumberKeys == ({"NumFramesPerCycle", "FrameLength"} \X Classes)
                \cup {<<"WaitTimeBeforeStart", 0>>, <<"HistogramMinimum", 0>>, <<"HistogramMaximum", 0>>}
StringKeys == ({"PayloadPattern"} \X Classes) \cup ({"SecurityKey"} \X SecureClasses)

NoKey    == <<"", 0>>   \* the NULL pointer "key"
NoString == ""          \* a NULL string field

\* What strtoul() makes of a scalar.
Number(v) == CASE v = "0" -> 0 [] v = "1" -> 1 [] v = "2" -> 2

Entries == [key : FileKeys, scalars : UNION {[1 .. n -> Scalars] : n \in 0 .. MaxScalars}]
Files   == UNION {[1 .. n -> Entries] : n \in 0 .. MaxEntries}

(* The tokens that libyaml makes of an entry.                              *)
Token(type, key, value) == [type |-> type, key |-> key, value |-> value]

Tokens(e) ==
    <<Token("KEY", NoKey, ""), Token("SCALAR", e.key, ""), Token("VALUE", NoKey, "")>>
    \o [i \in 1 .. Len(e.scalars) |-> Token("SCALAR", NoKey, e.scalars[i])]
    \o <<Token("BLOCK", NoKey, "")>>

VARIABLES file,      \* the entries of the file, never changed
          pc,        \* "defaults", "read", "ready", "freed" or "exit"
          entry,     \* the entry the scanner is in
          tokens,    \* what is left of its tokens
          state_key,
          key,
          flags,     \* app_config: the bool fields
          numbers,   \* app_config: the integer fields
          strings,   \* app_config: the pointers to strings
          qid,       \* qid[c]: the queue in c's lport id, 0 when it has none
          cnt,       \* qinfo[1].cnt
          heap       \* the number of strings that are allocated, those of the
                     \* scanner's tokens included

vars == <<file, pc, entry, tokens, state_key, key, flags, numbers, strings, qid, cnt, heap>>

DefaultNumber(k) ==
    CASE k[1] = "FrameLength" -> DefaultLength
      [] k[1] = "WaitTimeBeforeStart" -> MIN_WAIT_TIME
      [] k[1] = "HistogramMinimum" -> 1
      [] k[1] = "HistogramMaximum" -> 2
      [] OTHER -> 0

DefaultString(k) == IF k[1] = "PayloadPattern" THEN "Payload" ELSE NoString

Allocated(s) == Cardinality({k \in StringKeys : s[k] # NoString})

Init ==
    /\ file \in Files
    /\ pc = "defaults" /\ entry = 0 /\ tokens = <<>> /\ state_key = 0 /\ key = NoKey
    /\ flags = [k \in BoolKeys |-> FALSE]
    /\ numbers = [k \in NumberKeys |-> 0]
    /\ strings = [k \in StringKeys |-> NoString]
    /\ qid = [c \in Classes |-> 0] /\ cnt = 0
    /\ heap = 0
-----------------------------------------------------------------------------
(* config_set_defaults(): no memory for one of the strings frees the ones  *)
(* before it, and config_init() fails.                                     *)
config_set_defaults ==
    /\ pc = "defaults"
    /\ numbers' = [k \in NumberKeys |-> DefaultNumber(k)]
    /\ \/ /\ strings' = [k \in StringKeys |-> DefaultString(k)]
          /\ heap' = Allocated(strings') /\ pc' = "read"
       \/ pc' = "exit" /\ UNCHANGED <<strings, heap>>
    /\ UNCHANGED <<file, entry, tokens, state_key, key, flags, qid, cnt>>

(* yaml_parser_scan() returns the next token, or fails; err_parse frees    *)
(* the key and deletes the token.                                          *)
FreeKey == IF key = NoKey THEN 0 ELSE 1

err_parse ==
    /\ pc' = "exit" /\ key' = NoKey
    /\ heap' = heap - FreeKey

scan_fails ==
    /\ pc = "read" /\ err_parse
    /\ UNCHANGED <<file, entry, tokens, state_key, flags, numbers, strings, qid, cnt>>

next_entry ==
    /\ pc = "read" /\ tokens = <<>> /\ entry < Len(file)
    /\ entry' = entry + 1 /\ tokens' = Tokens(file[entry + 1])
    /\ UNCHANGED <<file, pc, state_key, key, flags, numbers, strings, qid, cnt, heap>>

\* A token that is no scalar: the others do not matter.
other_token ==
    /\ pc = "read" /\ tokens # <<>> /\ Head(tokens).type # "SCALAR"
    /\ state_key' = CASE Head(tokens).type = "KEY" -> 1
                      [] Head(tokens).type = "VALUE" -> 0
                      [] OTHER -> state_key
    /\ tokens' = Tail(tokens)
    /\ UNCHANGED <<file, pc, entry, key, flags, numbers, strings, qid, cnt, heap>>

ReadsScalar == pc = "read" /\ tokens # <<>> /\ Head(tokens).type = "SCALAR"

\* A scalar in the place of a key replaces the key; strdup() may fail.  The
\* continue behind it passes by yaml_token_delete(), so that the string of the
\* token stays allocated beside its copy.
save_key ==
    /\ ReadsScalar /\ state_key = 1
    /\ \/ /\ key' = Head(tokens).key /\ heap' = heap - FreeKey + 2 /\ pc' = pc
          /\ tokens' = Tail(tokens)
       \/ err_parse /\ UNCHANGED tokens
    /\ UNCHANGED <<file, entry, state_key, flags, numbers, strings, qid, cnt>>

\* A scalar behind the first one of a list has no key and is skipped; its token is
\* not deleted either.
skip_scalar ==
    /\ ReadsScalar /\ state_key = 0 /\ key = NoKey
    /\ tokens' = Tail(tokens) /\ heap' = heap + 1
    /\ UNCHANGED <<file, pc, entry, state_key, key, flags, numbers, strings, qid, cnt>>

(* The CONFIG_STORE_* macros.                                              *)
Invalid(k, v) ==
    \/ k \in BoolKeys /\ v \notin {"0", "1"}
    \/ k \in NumberKeys /\ v \notin {"0", "1", "2"}

\* Mutant: the key is kept for the next scalar of the list.
store_value_keep ==
    /\ ReadsScalar /\ state_key = 0 /\ key # NoKey /\ ~Invalid(key, Head(tokens).value)
    /\ LET v == Head(tokens).value
       IN /\ flags' = IF key \in BoolKeys THEN [flags EXCEPT ![key] = (v = "1")] ELSE flags
          /\ numbers' = IF key \in NumberKeys THEN [numbers EXCEPT ![key] = Number(v)] ELSE numbers
          /\ strings' = IF key \in StringKeys THEN [strings EXCEPT ![key] = v] ELSE strings
    /\ heap' = heap - Allocated(strings) + Allocated(strings')
    /\ tokens' = Tail(tokens)
    /\ UNCHANGED <<file, pc, entry, state_key, key, qid, cnt>>

\* The value goes to the field of its key, if there is one; the string that
\* was there is freed, and so are the key and the token.
store_value ==
    /\ ReadsScalar /\ state_key = 0 /\ key # NoKey /\ ~Invalid(key, Head(tokens).value)
    /\ LET v == Head(tokens).value
       IN /\ flags' = IF key \in BoolKeys THEN [flags EXCEPT ![key] = (v = "1")] ELSE flags
          /\ numbers' = IF key \in NumberKeys THEN [numbers EXCEPT ![key] = Number(v)] ELSE numbers
          /\ strings' = IF key \in StringKeys THEN [strings EXCEPT ![key] = v] ELSE strings
    /\ heap' = heap - Allocated(strings) + Allocated(strings') - FreeKey
    /\ key' = NoKey /\ tokens' = Tail(tokens)
    /\ UNCHANGED <<file, pc, entry, state_key, qid, cnt>>

\* The value does not parse.
store_fails ==
    /\ ReadsScalar /\ state_key = 0 /\ key # NoKey /\ Invalid(key, Head(tokens).value)
    /\ err_parse
    /\ UNCHANGED <<file, entry, tokens, state_key, flags, numbers, strings, qid, cnt>>

\* The old string is freed and there is no memory for the new one.
store_string_fails ==
    /\ ReadsScalar /\ state_key = 0 /\ key \in StringKeys
    /\ strings' = [strings EXCEPT ![key] = NoString]
    /\ pc' = "exit" /\ key' = NoKey
    /\ heap' = heap - Allocated(strings) + Allocated(strings') - FreeKey
    /\ UNCHANGED <<file, entry, tokens, state_key, flags, numbers, qid, cnt>>

(* The max_queue() calls, in the order of the classes with L2 last; queue  *)
(* 0 is reserved.                                                          *)
Enabled == {c \in Classes : flags[<<"Enabled", c>>]}

max_queue(c) == IF c \in Enabled THEN 1 + Cardinality({d \in Enabled : d < c}) ELSE 0

stream_end ==
    /\ pc = "read" /\ tokens = <<>> /\ entry = Len(file)
    /\ qid' = [c \in Classes |-> max_queue(c)]
    /\ cnt' = 1 + Cardinality(Enabled)
    /\ numbers' = [numbers EXCEPT ![<<"WaitTimeBeforeStart", 0>>] = IF @ < MIN_WAIT_TIME THEN MIN_WAIT_TIME ELSE @]
    /\ key' = NoKey /\ heap' = heap - FreeKey /\ pc' = "ready"
    /\ UNCHANGED <<file, entry, tokens, state_key, flags, strings>>

(* config_deinit() and __config_free()                                     *)
config_deinit ==
    /\ pc = "ready" /\ pc' = "freed"
    /\ heap' = heap - Allocated(strings)
    /\ strings' = [k \in StringKeys |-> NoString]
    /\ UNCHANGED <<file, entry, tokens, state_key, key, flags, numbers, qid, cnt>>

Next ==
    \/ config_set_defaults
    \/ scan_fails \/ next_entry \/ other_token
    \/ save_key \/ skip_scalar \/ store_value \/ store_fails \/ store_string_fails
    \/ stream_end \/ config_deinit

Spec == Init /\ [][Next]_vars
-----------------------------------------------------------------------------
(* Type correctness: the number of strings that are allocated never drops  *)
(* below zero, so none is freed twice by config_deinit().                  *)
TypeOK ==
    /\ pc \in {"defaults", "read", "ready", "freed", "exit"}
    /\ entry \in 0 .. MaxEntries /\ state_key \in 0 .. 1
    /\ key \in FileKeys \cup {NoKey}
    /\ flags \in [BoolKeys -> BOOLEAN] /\ numbers \in [NumberKeys -> Nat]
    /\ strings \in [StringKeys -> Scalars \cup {"Payload", NoString}]
    /\ qid \in [Classes -> Nat] /\ cnt \in Nat /\ heap \in Nat

(* Of the first n scalars of an entry, its key being the first, all but    *)
(* the one that is stored: their tokens are passed by.                     *)
PassedBy(n) == IF n < 2 THEN n ELSE n - 1

ScalarsRead == 1 + Len(file[entry].scalars)
                 - Cardinality({i \in 1 .. Len(tokens) : tokens[i].type = "SCALAR"})

Undeleted == MapThenSumSet(LAMBDA i : PassedBy(1 + Len(file[i].scalars)), 1 .. entry - 1)
                 + (IF entry = 0 THEN 0 ELSE PassedBy(ScalarsRead))

(* Every string that is allocated is the key being read, is held by        *)
(* exactly one field of app_config, or is that of a token that the loop    *)
(* passed by, one for each key and for each scalar without a key: on no    *)
(* path, the error paths included, is another one lost, or one freed that  *)
(* is still held, and config_deinit() leaves no other one.                 *)
StringsOwned == heap = Allocated(strings) + FreeKey + Undeleted

(* The reference: a field has the first scalar of the last entry for its   *)
(* key that has a scalar, else its default.                                *)
Given(k) == {i \in 1 .. Len(file) : file[i].key = k /\ file[i].scalars # <<>>}

LastGiven(k) == file[CHOOSE i \in Given(k) : \A j \in Given(k) : j <= i].scalars[1]

(* The token machine of config_read_from_file() computes what the file     *)
(* says: a file with a value that does not parse is refused, and otherwise *)
(* every field has the first scalar of the last entry with its key, else   *)
(* its default, whatever sections, lists and unknown keys are around it.   *)
FileDecides ==
    pc = "ready" =>
      /\ \A i \in 1 .. Len(file) :
            file[i].scalars # <<>> => ~Invalid(file[i].key, file[i].scalars[1])
      /\ \A k \in BoolKeys : flags[k] = (Given(k) # {} /\ LastGiven(k) = "1")
      /\ \A k \in NumberKeys \ {<<"WaitTimeBeforeStart", 0>>} :
            numbers[k] = IF Given(k) = {} THEN DefaultNumber(k) ELSE Number(LastGiven(k))
      /\ \A k \in StringKeys :
            strings[k] = IF Given(k) = {} THEN DefaultString(k) ELSE LastGiven(k)

(* The enabled classes have queues of their own, none has the reserved     *)
(* queue 0, and all of them are within the queues of the port (cnt) and    *)
(* within qids[].                                                          *)
QueuesDistinct ==
    pc = "ready" =>
      /\ \A c \in Enabled : qid[c] \in 1 .. cnt - 1
      /\ \A c, d \in Enabled : c # d => qid[c] # qid[d]
      /\ cnt <= MAX_QUEUES_ENABLED
=============================================================================
