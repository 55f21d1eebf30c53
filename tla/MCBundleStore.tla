---------------------------- MODULE MCBundleStore ----------------------------
(* Two roots that share an item, and chains that exchange their heights.   *)
EXTENDS BundleStore

CONSTANTS w1, w2, a1, a2, b1, b2

\* Objects by the order of their ids.  Both roots hold the nested bundle 3, and
\* its item 4 comes twice in root 2; 5 stands for bundles nested too deep,
\* 6 for what the index filter leaves out.
MCContents == 1 :> <<6, 3, 5>> @@ 2 :> <<3, 4>> @@ 3 :> <<4>> @@ 5 :> <<5>>

MCTxs == a1 :> <<1>> @@ a2 :> <<2>> @@ b1 :> <<2>> @@ b2 :> <<1>>
MCTwice == a1 :> <<1>> @@ a2 :> <<2, 1>> @@ b1 :> << >> @@ b2 :> << >>
\* Connections are alike.
Alike == Permutations(Writer)

MCForks == <<<<a1, a2>>, <<b1, b2>>, <<a1, a2>>>>
=============================================================================
