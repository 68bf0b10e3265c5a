---------------------------- MODULE MCTxPreview ----------------------------
(* Values of the constants of TxPreview for model checking. *)
EXTENDS TxPreview

(* A value below what one more input costs at the highest rate, a tenth of *)
(* the Necklace fee, and a large one.                                      *)
MCValues == {5000, 1000000, 9000000}

(* Up to 17 middling coins: at 16 inputs a transaction outgrows the 1000   *)
(* vbytes under which the relay fee is flat.                               *)
MCWallets ==
    {[v \in MCValues |-> CASE v = 5000 -> s [] v = 1000000 -> m [] OTHER -> b] :
        s \in {0, 3}, m \in {0, 5, 17}, b \in 0..3}

(* Change of exactly the dust floor, a Grain below it, none, or plenty, at *)
(* the lowest and at the highest rate, with 2 large inputs and with 17.    *)
MCAmounts == {546, 6000000, 7998454, 7998455, 7999000, 7899700, 6998583, 6888000}
=============================================================================
