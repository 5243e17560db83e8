-------------------------- MODULE AbstractOptional --------------------------
(***************************************************************************)
(* What optional/optional.h promises: an Optional has a value or none, is  *)
(* assigned and copied by value, and still has a (moved) value when it has *)
(* been moved from.  An exception changes nothing, but for one case: an    *)
(* assignment of a value over a value may lose the Optional it is for.     *)
(* A value may have an Optional inside: contents of a variable are the     *)
(* values from the outermost to the innermost, None at the end for an      *)
(* empty Optional.                                                         *)
(***************************************************************************)
EXTENDS Integers, SequencesExt

CONSTANTS Variables, Data, Moved, None, NoObject, Lost

VARIABLE contents

Live == {v \in Variables : contents[v] \notin {NoObject, Lost}}

Init == contents = [v \in Variables |-> NoObject]

Set(v, s) == contents' = [contents EXCEPT ![v] = s]

(* s comes from inside of w, at index i, and leaves a moved value there. *)
Take(v, w, i, s) ==
  contents' = [contents EXCEPT
    ![w] = IF @[i] = None THEN @ ELSE Append(SubSeq(@, 1, i - 1), Moved), ![v] = s]

(* Constructors and assignments. *)
Become(v) ==
  \/ Set(v, <<None>>)
  \/ \E d \in Data : Set(v, <<d>>)
  \/ \E w \in Live : \E i \in DOMAIN contents[w] :
       LET s == SubSeq(contents[w], i, Len(contents[w])) IN Set(v, s) \/ Take(v, w, i, s)

Lose(v) ==
  /\ v \in Live /\ contents[v][1] # None
  /\ \/ Set(v, Lost)
     \/ \E w \in Live : \E i \in DOMAIN contents[w] : contents[w][i] # None /\ Take(v, w, i, Lost)

(* The program writes to a value, or moves it out. *)
Write(v) ==
  /\ v \in Live
  /\ \E i \in DOMAIN contents[v] :
       /\ contents[v][i] # None
       /\ \/ Take(v, v, i, Append(SubSeq(contents[v], 1, i - 1), Moved))
          \/ \E d \in Data, inside \in {<<>>, <<None>>} \cup {<<e>> : e \in Data} :
               Set(v, SubSeq(contents[v], 1, i - 1) \o <<d>> \o inside)

Next == \E v \in Variables :
          \/ contents[v] # Lost /\ Become(v)
          \/ v \in Live /\ Set(v, NoObject)
          \/ Lose(v) \/ Write(v)

Spec == Init /\ [][Next]_contents
=============================================================================
