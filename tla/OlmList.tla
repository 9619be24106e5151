------------------------------- MODULE OlmList -------------------------------
(***************************************************************************)
(* The fixed-capacity lists of include/libce/list.h.  A list is a sequence *)
(* no longer than its capacity: the C list's "length" is Len, its          *)
(* "data[i]" is the element i + 1.  Capacity is an argument here because   *)
(* in C it is a property of the array type.                                *)
(***************************************************************************)
EXTENDS Integers, Sequences

(* Make room for one element before position pos (1 .. Len(list) + 1) and  *)
(* store value there.  A full list stays as long as it was: its last       *)
(* element falls off, or, when pos is one past the end, is overwritten.    *)
ListInsert(list, pos, value, capacity) ==
    LET length == IF Len(list) < capacity THEN Len(list) + 1 ELSE Len(list)
        at     == IF Len(list) >= capacity /\ pos = Len(list) + 1 /\ pos > 1
                    THEN pos - 1 ELSE pos
    IN  [i \in 1 .. length |->
            IF i = at THEN value ELSE IF i < at THEN list[i] ELSE list[i - 1]]

ListInsertFront(list, value, capacity) == ListInsert(list, 1, value, capacity)

(* Faulty variant: the element after the given one is removed.             *)
ListEraseNext(list, pos) ==
    [i \in 1 .. (IF Len(list) > pos THEN Len(list) - 1 ELSE Len(list)) |->
        IF i <= pos THEN list[i] ELSE list[i + 1]]

(* Remove the element at position pos, closing the gap.                    *)
ListErase(list, pos) ==
    IF pos \notin DOMAIN list
      THEN list
      ELSE [i \in 1 .. Len(list) - 1 |-> IF i < pos THEN list[i] ELSE list[i + 1]]
=============================================================================
