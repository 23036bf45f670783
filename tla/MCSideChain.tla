---------------------------- MODULE MCSideChain ----------------------------
(* One side chain, four signers with a coinbase each.  Every loop of the     *)
(* main chain sees two blocks of the side chain, which has two branches that *)
(* part after block 9: the main chain's queue is drawn anew in every loop,   *)
(* and on branch B block 10 has the sealer of block 9.  Coinbase c4 seals    *)
(* nothing and sides with branch B; c2 and c4 also send a list without order *)
(* that ends far ahead of the chain.                                         *)
EXTENDS SideChain

CONSTANTS s1, s2, s3, s4, c1, c2, c3, c4, sc

MCInitialCoinbase == <<s1, sc>> :> c1 @@ <<s2, sc>> :> c2 @@ <<s3, sc>> :> c3
                     @@ <<s4, sc>> :> c4

Branch(sealers) == [n \in 0..13 |->
    [coinbase |-> IF n < 10 THEN <<c1, c3>>[(n % 2) + 1] ELSE sealers[n - 9],
     slot |-> 3 * (n \div 2) + 2 * (n % 2)]]

MCBranches == sc :> {Branch(<<c1, c2, c1, c3>>), Branch(<<c3, c2, c1, c2>>)}

Ahead == << <<10, c1>>, <<9, c4>>, <<10, c2>>, <<20, c4>> >>
MCUnfounded ==
    [hash : {sc}, by : {c2, c4}, number : {12}, info : {Ahead}]

MCSettings == {[signer |-> s3, hash |-> sc, coinbase |-> c2]}

(* The side chain asks for a tenth of the miner's reward. *)
MCOffers == {[count |-> 2, reward |-> 100]}
=============================================================================
