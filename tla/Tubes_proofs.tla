----------------------------- MODULE Tubes_proofs -----------------------------
(* What calc_map and write_data make of any six digits, for the modules    *)
(* whose frames are shown.                                                 *)
EXTENDS Tubes, TLAPS

(* Six digits light exactly their own cathodes.                            *)
LEMMA DigitsAreLit ==
  ASSUME NEW src, \A p \in Tube : src[p] \in 0 .. 9
  PROVE  \A p \in Tube : Lit(Latch(src), p) = {src[p]}
<1>1. ASSUME NEW n \in 0 .. 63 PROVE Sent(64 - n) = n
  BY <1>1 DEF Sent
<1>2. calc_map(src) = {tube * 10 + src[5 - tube] : tube \in 0 .. 5}
  BY DEF calc_map, Tube, TUBE_NUM, Mirror
<1>3. calc_map(src) \subseteq 0 .. 63
  BY <1>2 DEF Tube, TUBE_NUM
<1>4. Latch(src) = {tube * 10 + src[5 - tube] : tube \in 0 .. 5}
  BY <1>1, <1>2, <1>3 DEF Latch, write_data
<1>5. ASSUME NEW p \in Tube, NEW d \in 0 .. 9
      PROVE  (5 - p) * 10 + d \in Latch(src) <=> d = src[p]
  <2>1. p \in 0 .. 5
    BY DEF Tube, TUBE_NUM
  <2>2. ASSUME d = src[p] PROVE (5 - p) * 10 + d \in Latch(src)
    <3>1. 5 - p \in 0 .. 5 /\ 5 - (5 - p) = p
      BY <2>1
    <3> QED
      BY <1>4, <2>2, <3>1
  <2>3. ASSUME (5 - p) * 10 + d \in Latch(src) PROVE d = src[p]
    <3>1. PICK tube \in 0 .. 5 : (5 - p) * 10 + d = tube * 10 + src[5 - tube]
      BY <1>4, <2>3
    <3>2. src[5 - tube] \in 0 .. 9
      BY DEF Tube, TUBE_NUM
    <3>3. tube = 5 - p
      BY <2>1, <3>1, <3>2
    <3> QED
      BY <2>1, <3>1, <3>2, <3>3
  <2> QED
    BY <2>2, <2>3
<1> QED
  BY <1>5 DEF Lit, Mirror, TUBE_NUM, Tube

(* Two lit tubes are read as one number.                                   *)
LEMMA PairOfDigits ==
  ASSUME NEW src, \A p \in Tube : src[p] \in 0 .. 9, NEW p \in 0 .. 4
  PROVE  Pair(Latch(src), p) = {10 * src[p] + src[p + 1]}
<1>1. p \in Tube /\ p + 1 \in Tube
  BY DEF Tube, TUBE_NUM
<1>2. Lit(Latch(src), p) = {src[p]} /\ Lit(Latch(src), p + 1) = {src[p + 1]}
  BY <1>1, DigitsAreLit
<1> QED
  BY <1>2 DEF Pair

(* The two digits of a number below 100 make it up again.                  *)
LEMMA TwoDigits ==
  ASSUME NEW n \in 0 .. 99
  PROVE  n \div 10 \in 0 .. 9 /\ n % 10 \in 0 .. 9 /\ 10 * (n \div 10) + (n % 10) = n
<1> DEFINE t == n \div 10
           u == n % 10
<1>1. t \in 0 .. 9 /\ u \in 0 .. 9 /\ n = t * 10 + u
  OBVIOUS
<1> QED
  BY <1>1

=============================================================================
