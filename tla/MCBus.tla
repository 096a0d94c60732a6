-------------------------------- MODULE MCBus --------------------------------
(* The two drivers that talk to a chip by transfers that may fail, Cp2102 over
   USB and Ds1307 over I2C.  They share nothing: each works while the other is
   at rest. *)
EXTENDS Cp2102, Ds1307

CONSTANTS p1, p2, c1, c2

\* The uninitialised words hold zero, or the mask of RTS (in lctrl, one more
\* bit of the word length).
Leftovers == {{}, {9}}

\* TIOCMSET names both lines, TIOCMBIS and TIOCMBIC one each.
BothLines == {[set |-> {"RTS"}, clear |-> {"DTR"}]}
EachLine == {[set |-> {l}, clear |-> {}] : l \in Lines} \cup {[set |-> {}, clear |-> {l}] : l \in Lines}

\* The last seconds of a year and of a 28 February.
NewYearsEve == <<59, 59, 23, 0, 31, 11, 123>>
LastSeconds == {NewYearsEve, <<59, 59, 23, 3, 28, 1, 124>>}

\* The years next to the chip's century, one with a day of the week that is none.
SomeAsked == {<<59, 59, 23, 3, 28, 1, 124>>, <<59, 59, 23, 5, 31, 11, 99>>,
              <<59, 59, 23, 7, 31, 11, 200>>}

\* What a chip becomes that shows no time.
Anything == {<<0, 0, 0, 1, 1, 1, 0>>, <<0, 0, 0, 0, 0, 0, 0>>}

\* -EREMOTEIO: nobody answers.
Unplugged == {-121}

\* One driver works while the other rests in one of its initial states.
CpRests == CpInit /\ tty_parity = "none"
DsRests == DsInit /\ since[c1] = NewYearsEve /\ since[c2] = NewYearsEve
Init == CpInit /\ DsInit
Next ==
  \/ DsRests /\ CpNext /\ UNCHANGED ds_vars
  \/ CpRests /\ DsNext /\ UNCHANGED cp_vars
Spec == Init /\ [][Next]_<<cp_vars, ds_vars>>
=============================================================================
