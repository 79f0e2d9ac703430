--------------------------- MODULE ThreadNumbering ---------------------------
(***************************************************************************)
(* What ThreadManager::thread() promises, as one atomic step: a thread id  *)
(* that asks for the first time gets the smallest number nobody has, and   *)
(* keeps it for good.                                                      *)
(***************************************************************************)
EXTENDS Naturals

CONSTANTS Ids,        \* the std::thread::id values the platform hands out
          None        \* "no number yet"

VARIABLE numbering    \* thread id -> its number, or None

Numbered == {t \in Ids : numbering[t] # None}

Init == numbering = [t \in Ids |-> None]

Assign(t) ==
  /\ numbering[t] = None
  /\ numbering'[t] \in Nat
  /\ numbering' = [numbering EXCEPT ![t] = numbering'[t]]
  /\ \A u \in Numbered : numbering[u] # numbering'[t]
  /\ \A n \in 0 .. (numbering'[t] - 1) : \E u \in Numbered : numbering[u] = n

Next == \E t \in Ids : Assign(t)

Spec == Init /\ [][Next]_numbering
==============================================================================
