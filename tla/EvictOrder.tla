------------------------------ MODULE EvictOrder ------------------------------
(***************************************************************************)
(* The order in which the evictions visit the buckets.  ring_evict_path    *)
(* counts its calls in ring_G, which is never reduced modulo PATH, and     *)
(* writes the path that reverse_lex gives for the count.                   *)
(***************************************************************************)
EXTENDS OramTree

CONSTANTS
  MAX_G,   (* bound: evictions of a simulation                              *)
  BITS     (* bound: binary digits of a count, MAX_G < 2 ^ BITS            *)

(* The count never needs more digits; and powers go on being powers.       *)
ASSUME CountAssumption ==
  /\ MAX_G \in Nat /\ BITS \in Nat /\ MAX_G < 2 ^ BITS
  /\ \A k \in 0 .. BITS : 2 ^ (k + 1) = 2 * 2 ^ k

VARIABLES
  ring_G,  (* evictions made                                                *)
  idle     (* evictions since a bucket was last on an evicted path          *)

order == << ring_G, idle >>

(* rev + bit * pow(2, LEVEL-2-i), truncated by the assignment to an int.   *)
AddBit_shifted(rev, bit, i) ==
  IF i <= LEVEL - 1 THEN rev + bit * 2 ^ (LEVEL - 1 - i) ELSE rev
AddBit_rounded(rev, bit, i) ==
  IF i <= LEVEL - 2 THEN rev + bit * 2 ^ (LEVEL - 2 - i)
  ELSE LET d == 2 ^ (i - (LEVEL - 2)) IN (rev * d + bit + d \div 2) \div d
AddBit(rev, bit, i) ==
  IF i <= LEVEL - 2 THEN rev + bit * 2 ^ (LEVEL - 2 - i)
  ELSE LET d == 2 ^ (i - (LEVEL - 2)) IN (rev * d + bit) \div d

(* The loop of the function reverse_lex over the digits of n, low to high. *)
reverse_lex_loop(n) ==
  LET rev[i \in 0 .. BITS] ==
        IF i = 0 THEN 0 ELSE AddBit(rev[i - 1], (n \div 2 ^ (i - 1)) % 2, i - 1)
  IN  rev[BITS]

OrderInit ==
  /\ ring_G = 0
  /\ idle = [n \in Node |-> 0]

ring_evict_path ==
  /\ ring_G < MAX_G
  /\ LET path == OnPath(reverse_lex_loop(ring_G))
     IN  idle' = [n \in Node |-> IF n \in path THEN 0 ELSE idle[n] + 1]
  /\ ring_G' = ring_G + 1

OrderSpec == OrderInit /\ [][ring_evict_path]_order

(* A bucket of level l waits at most 2^l - 1 evictions for its turn, also  *)
(* after ring_G has outgrown the number of paths: since 2^l buckets share  *)
(* the level, each is evicted exactly once in 2^l evictions.               *)
InTurn == \A n \in Node : idle[n] < 2 ^ n[1]

(* The label the loop computes is the reversal of the low LEVEL - 1 bits   *)
(* of the count, so the count may be taken modulo PATH.                    *)
CountWraps == reverse_lex_loop(ring_G) = reverse_lex(ring_G % PATH)
===============================================================================
