-------------------------- MODULE MCStockObjects --------------------------
(* Two threads and two stock indices, both of which are to be replaced.    *)
EXTENDS StockObjects

MCFontOrder  == <<1, 0>>
MCOriginalOf == [r \in 0 .. StockLast + 2 |-> <<"original", r>>]
=============================================================================
