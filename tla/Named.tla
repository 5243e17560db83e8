------------------------------- MODULE Named --------------------------------
(***************************************************************************)
(* The header-only containers all have variables of a program, a heap and  *)
(* nullptr.  NamedList, NamedVector, NamedAny and NamedDeque instantiate   *)
(* List, Vector, Any and Deque under names of their own, so that a module  *)
(* which has the names of another header can use them too; this is what    *)
(* the four share.                                                         *)
(***************************************************************************)
CONSTANTS
  Objects, Values,      (* the variables of a program, the ints they hold   *)
  MaxSize,              (* bound: elements of an object                     *)
  NoObject, Nil         (* not constructed, nullptr                         *)
=============================================================================
