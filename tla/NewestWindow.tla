----------------------------- MODULE NewestWindow -----------------------------
(***************************************************************************)
(* What "drops the OLDEST item when full" means, without a queue.  Items   *)
(* are numbered as they are put.  The ones that can still be had are an    *)
(* interval of numbers; a put extends it at the top and, only if it would  *)
(* become longer than size, shortens it at the bottom; a get takes the     *)
(* lowest number, and comes back with 0 only if there is none.             *)
(***************************************************************************)
EXTENDS Integers

CONSTANT
    size       \* how many items can be had at most, 1 or more

VARIABLES
    gone,      \* the items up to this number have been taken or dropped
    last,      \* the newest item
    taken      \* the answer to the last get

windowVars == <<gone, last, taken>>

WindowInit == gone = 0 /\ last = 0 /\ taken = 0

WindowPut ==
    /\ last' = last + 1
    /\ gone' = IF last - gone = size THEN gone + 1 ELSE gone
    /\ UNCHANGED taken

WindowGet ==
    /\ gone < last
    /\ taken' = gone + 1
    /\ gone' = gone + 1
    /\ UNCHANGED last

WindowGetNothing ==
    /\ gone = last
    /\ taken' = 0
    /\ UNCHANGED <<gone, last>>

WindowNext == WindowPut \/ WindowGet \/ WindowGetNothing

WindowSpec == WindowInit /\ [][WindowNext]_windowVars

=============================================================================
