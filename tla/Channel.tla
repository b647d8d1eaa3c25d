-------------------------------- MODULE Channel --------------------------------
(***************************************************************************)
(* What one direction of a connection promises to those who send and       *)
(* receive messages on it, without chunks, headers and bytes.  Messages    *)
(* are taken one by one in the order in which they are given, each if and  *)
(* only if the receiver has room for it; the first that it has no room for *)
(* closes the channel.                                                     *)
(*                                                                         *)
(* Framing implements this specification (see Messages there), and Bridge  *)
(* does in each of its two directions (see FromOne and FromTwo there).     *)
(***************************************************************************)
EXTENDS Naturals, Sequences, SequencesExt

CONSTANTS
  FitFirst,  \* the messages there is room for at first
  Fit        \* the messages there is room for after the first

VARIABLES
  given,   \* the messages given to the channel
  taken,   \* those taken from it
  open     \* no message has been refused

cvars == <<given, taken, open>>

CInit == given = <<>> /\ taken = <<>> /\ open = TRUE

\* A content may be given as several messages at once.
Give ==
  /\ IsStrictPrefix(given, given')
  /\ UNCHANGED <<taken, open>>

MessageWaits == open /\ Len(taken) < Len(given)

NextMessage == given[Len(taken) + 1]

Room == IF taken = <<>> THEN FitFirst ELSE Fit

Take ==
  /\ MessageWaits /\ NextMessage \in Room
  /\ taken' = Append(taken, NextMessage)
  /\ UNCHANGED <<given, open>>

Refuse ==
  /\ MessageWaits /\ NextMessage \notin Room
  /\ open' = FALSE
  /\ UNCHANGED <<given, taken>>

CNext == Give \/ Take \/ Refuse

CSpec == CInit /\ [][CNext]_cvars
=============================================================================
