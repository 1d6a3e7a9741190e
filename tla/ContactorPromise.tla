-------------------------- MODULE ContactorPromise --------------------------
(***************************************************************************)
(* What the simulated contactors promise the battery-management            *)
(* application, without counters, override rows or frames: a contactor is  *)
(* moving or at rest; it comes to rest only where it was wanted, it never  *)
(* moves unless told to, and the test bench can put it anywhere only while *)
(* it holds it forced.                                                     *)
(***************************************************************************)
EXTENDS Integers

CONSTANTS Contactors, Positions, Open

VARIABLES
  wanted,   \* the position the application asked for last
  at,       \* the position the contactor is in
  moving,   \* on its way to the wanted position
  held      \* held by the test bench

promiseVars == <<wanted, at, moving, held>>

Init ==
  /\ wanted = [c \in Contactors |-> Open]
  /\ at = [c \in Contactors |-> Open]
  /\ moving = [c \in Contactors |-> FALSE]
  /\ held = [c \in Contactors |-> FALSE]

\* The application wants another position: the contactor sets off.
Want(c) ==
  /\ \E p \in Positions \ {wanted[c]} : wanted' = [wanted EXCEPT ![c] = p]
  /\ moving' = [moving EXCEPT ![c] = TRUE]
  /\ UNCHANGED <<at, held>>

\* A contactor arrives where it was wanted.
Arrives(c) == moving[c] /\ at'[c] = wanted[c] /\ ~moving'[c]

\* A held contactor is wherever the test bench puts it, and comes to rest there.
Placed(c) == at'[c] \in Positions /\ ~moving'[c]

Stays(c) == at'[c] = at[c] /\ moving'[c] = moving[c]

\* Time passes: each contactor for itself arrives, stays, or is placed if held.
Elapse ==
  /\ at' \in [Contactors -> Positions]
  /\ moving' \in [Contactors -> BOOLEAN]
  /\ \A c \in Contactors : IF held[c] THEN Placed(c) ELSE Stays(c) \/ Arrives(c)
  /\ UNCHANGED <<wanted, held>>

\* The test bench takes hold of some contactors and lets go of others.
Hold ==
  /\ held' \in [Contactors -> BOOLEAN]
  /\ UNCHANGED <<wanted, at, moving>>

\* Everything is switched off at once.
SwitchOff ==
  /\ wanted' = [c \in Contactors |-> Open]
  /\ at' = [c \in Contactors |-> Open]
  /\ moving' = [c \in Contactors |-> FALSE]
  /\ UNCHANGED held

Next == (\E c \in Contactors : Want(c)) \/ Elapse \/ Hold \/ SwitchOff

Spec == Init /\ [][Next]_promiseVars

=============================================================================
