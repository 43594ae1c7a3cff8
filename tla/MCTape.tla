------------------------------- MODULE MCTape -------------------------------
(* Tape for TLC: bytes of two bits, pilots of two and one pulses; a .tap, two *)
(* .tzx, a decoded recording and a tape shorter than the cushion.             *)
EXTENDS Tape

Std(header, data, ms) == [id |-> "std", header |-> header, data |-> data, ms |-> ms]
Tap == [fmt |-> "blocks", blocks |->
          <<Std(TRUE, <<<<0, 1>>>>, 500), Std(FALSE, <<<<1, 0>>, <<1, 1>>>>, 500)>>]
Turbo == [fmt |-> "blocks", blocks |->
           <<[id |-> "info"], Std(TRUE, <<<<0, 0>>>>, 0),
             [id |-> "turbo", pilot |-> 900, count |-> 0, sync |-> <<400, 500>>,
              bit |-> <<300, 600>>, used |-> 1, data |-> <<<<1, 0>>, <<1, 1>>>>, ms |-> 6000],
             [id |-> "bad"], [id |-> "pause", ms |-> 1]>>]
Looped == [fmt |-> "blocks", blocks |->
            <<[id |-> "loop", times |-> 2], [id |-> "info"],
              [id |-> "tone", pilot |-> 700, count |-> 2],
              [id |-> "endloop"], [id |-> "pulses", lens |-> <<100, 200, 300>>],
              [id |-> "data", bit |-> <<300, 600>>, used |-> 2, data |-> <<<<0, 1>>>>, ms |-> 3500],
              [id |-> "pause", ms |-> 0]>>]
Decoded == [fmt |-> "list", pulses |->
             [i \in 1 .. 3 |-> [dur |-> 800 + i, lvl |-> i % 2, rom |-> FALSE, first |-> FALSE]]]

\* Shorter than the cushion; and behind a pause of three and a half seconds.
Few == [id |-> "pulses", lens |-> <<100, 200>>]
Pair == [fmt |-> "blocks", blocks |-> <<Few>>]
Paused == [id |-> "data", bit |-> <<300, 600>>, used |-> 1, data |-> <<<<0, 1>>>>, ms |-> 3500]
Multiload == [fmt |-> "blocks", blocks |-> <<Paused, Few>>]

Files == <<Tap, Turbo, Looped, Decoded, Pair>>
TurboFile == <<Turbo>>
MultiloadFile == <<Multiload>>
TapFile == <<Tap>>
FewFile == <<Pair>>

ASSUME Short
=============================================================================
