------------------------------ MODULE MCQuotes ------------------------------
(* A small instance of Quotes: the prices a token starts from and moves to. *)
EXTENDS Quotes

MCStart == [t \in Tokens |-> CASE t = "WAL" -> 10 [] t = "SUI" -> 20 [] t = "ETH" -> 10]
MCLevels == [t \in Tokens |-> CASE t = "WAL" -> {10, 14}
                                [] t = "SUI" -> {20, 26}
                                [] t = "ETH" -> {8, 10}]
=============================================================================
