----------------------------- MODULE KeyValueTable -----------------------------
(***************************************************************************)
(* What a DMF_HashTable promises: at most DataTableSize keys, each with    *)
(* the value written last, in the order in which they were added; nothing  *)
(* is ever removed. An enumeration is given the entries in that order and  *)
(* is disturbed by no other Method. "answer" is what the last Method or    *)
(* callback was given.                                                     *)
(***************************************************************************)
EXTENDS Integers, Sequences

CONSTANTS Keys, Values, Empty, DataTableSize

VARIABLES entries,
          cursor,       \* the entry that an enumeration comes to, or 0
          answer

Places == DOMAIN entries

Answer(m, k, status, v) == [method |-> m, key |-> k, status |-> status, value |-> v]

Init ==
    /\ entries = <<>> /\ cursor = 0
    /\ \E k \in Keys : answer = Answer("none", k, "none", Empty)

Read(k) ==
    /\ cursor = 0
    /\ \/ \E i \in Places :
            /\ entries[i].key = k
            /\ \/ answer' = Answer("Read", k, "SUCCESS", entries[i].value)
               \/ answer' = Answer("Read", k, "BUFFER_TOO_SMALL", Empty)
       \/ /\ \A i \in Places : entries[i].key # k
          /\ answer' = Answer("Read", k, "NOT_FOUND", Empty)
    /\ UNCHANGED <<entries, cursor>>

Update(m, k, v) ==
    /\ cursor = 0
    /\ \E i \in Places :
          /\ entries[i].key = k
          /\ entries' = [entries EXCEPT ![i] = [key |-> k, value |-> v]]
          /\ answer' = Answer(m, k, "SUCCESS", entries[i].value)
    /\ UNCHANGED cursor

Add(m, k, v) ==
    /\ cursor = 0
    /\ \A i \in Places : entries[i].key # k
    /\ IF Len(entries) < DataTableSize
          THEN /\ entries' = Append(entries, [key |-> k, value |-> v])
               /\ answer' = Answer(m, k, "SUCCESS", Empty)
          ELSE /\ answer' = Answer(m, k, "BUFFER_TOO_SMALL", Empty)
               /\ UNCHANGED entries
    /\ UNCHANGED cursor

Enumerate == cursor = 0 /\ cursor' = 1 /\ UNCHANGED <<entries, answer>>

Visit ==
    /\ cursor \in Places
    /\ answer' = Answer("Enumerate", entries[cursor].key, "VISIT", entries[cursor].value)
    /\ cursor' \in {cursor + 1, 0}
    /\ UNCHANGED entries

EnumerateEnds == cursor > Len(entries) /\ cursor' = 0 /\ UNCHANGED <<entries, answer>>

Next ==
    \/ \E k \in Keys : Read(k)
    \/ \E m \in {"Find", "Write"}, k \in Keys, v \in Values : Update(m, k, v) \/ Add(m, k, v)
    \/ Enumerate \/ Visit \/ EnumerateEnds

Spec == Init /\ [][Next]_<<entries, cursor, answer>>
=============================================================================
