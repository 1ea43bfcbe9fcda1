----------------------------- MODULE MCMempool -----------------------------
(***************************************************************************)
(* A small family of transactions: A and R spend the same coin, and R also *)
(* spends the coinbase K; B and C form a diamond below A, B is             *)
(* time-locked; P pegs a coin in and M spends its extension-block output.  *)
(***************************************************************************)
EXTENDS Mempool, TLC

MCOrder == <<"K", "A", "R", "B", "C", "P", "M">>

MCSpends == "K" :> {} @@ "A" :> {"o0"} @@ "R" :> {"o0", "k"} @@ "B" :> {"a1"}
            @@ "C" :> {"a2", "b"} @@ "P" :> {"o1"} @@ "M" :> {"m1"}

MCCreates == "K" :> {"k"} @@ "A" :> {"a1", "a2"} @@ "R" :> {"r"} @@ "B" :> {"b"}
             @@ "C" :> {} @@ "P" :> {"m1"} @@ "M" :> {}

MCKernelOrder == <<"M", "P">>

MCFee == "K" :> 0 @@ "A" :> 1 @@ "R" :> 9 @@ "B" :> 3 @@ "C" :> 2 @@ "P" :> 2 @@ "M" :> 1
=============================================================================
