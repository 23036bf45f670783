---------------------------- MODULE MCHeaderTime ----------------------------
(* All chains of up to MaxLen blocks after the genesis block, each block on  *)
(* time, Period seconds after its parent, or some seconds late.              *)
EXTENDS HeaderTime

CONSTANTS MaxLen, Gaps

MCChains ==
    UNION {{[n \in 0..k |-> IF n = 0 THEN 1 ELSE
               1 + LET sum[i \in 0..k] == IF i = 0 THEN 0 ELSE sum[i - 1] + gap[i]
                   IN  sum[n]] : gap \in [1..k -> Gaps]} : k \in 0..MaxLen}
=============================================================================
