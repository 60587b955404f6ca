-------------------------------- MODULE Tubes --------------------------------
(***************************************************************************)
(* What a frame of seven bytes looks like on the six tubes: calc_map and   *)
(* write_data of app_display.c, with the frames app_time.c and app_th.c    *)
(* prepare.  A latch is the set of the outputs, 0 to 63, that are on.      *)
(***************************************************************************)
EXTENDS Integers

TUBE_NUM == 6
Tube     == 0 .. TUBE_NUM - 1

(* The position p counts from the left, as in a frame; the tube's number   *)
(* in calc_map counts from the right.                                      *)
Mirror(p) == TUBE_NUM - 1 - p

(* Mutant: the digit of the other end is not mirrored.                     *)
calc_map_straight(src) == {tube * 10 + src[tube] : tube \in {t \in Tube : src[t] <= 9}}

(* The digit that is tested is not the one that is shown.                  *)
calc_map(src) == {tube * 10 + src[Mirror(tube)] : tube \in {t \in Tube : src[t] <= 9}}

(* The eight bytes leave with bit 63 first; 64 clocks later the n-th bit   *)
(* sent is in the chip's stage 64 - n.                                     *)
Sent(n) == 64 - n
write_data(map) == {stage \in 0 .. 63 : Sent(64 - stage) \in map}

Latch(src) == write_data(calc_map(src))

(* The wiring: ten outputs per tube.                                       *)
Lit(latch, p) == {d \in 0 .. 9 : Mirror(p) * 10 + d \in latch}

(* What a reader makes of two tubes: one number if each shows one digit.   *)
Pair(latch, p) == {10 * a + b : a \in Lit(latch, p), b \in Lit(latch, p + 1)}

-----------------------------------------------------------------------------
(* The frames.  The seventh byte, the colons, is not about the tubes.      *)

Frame(a, b, c, d, e, f) ==
    [p \in Tube |-> CASE p = 0 -> a [] p = 1 -> b [] p = 2 -> c
                      [] p = 3 -> d [] p = 4 -> e [] p = 5 -> f]

TimeFrame(t) ==
    Frame(t.hour \div 10, t.hour % 10, t.min \div 10, t.min % 10,
          t.sec \div 10, t.sec % 10)

(* app_th_refresh_display, of a temperature that is not negative.          *)
ClimateFrame(tenths, hum) ==
    Frame(tenths \div 100, (tenths % 100) \div 10, tenths % 10, 0,
          hum \div 10, hum % 10)
=============================================================================
