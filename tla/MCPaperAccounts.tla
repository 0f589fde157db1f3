--------------------------- MODULE MCPaperAccounts ---------------------------
(* An instance of PaperAccounts for TLC: two markets of one category, an   *)
(* article about both and one about the first only.                        *)
EXTENDS PaperAccounts, TLC

CONSTANTS m1, m2, n1, n2

MCStopWords == {"the", "will"}
MCCanonical == "btc" :> "bitcoin"
MCSynonyms  == ("bitcoin" :> {"btc", "bitcoin"}) @@ ("fed" :> {"fed", "fomc"})

MCText == (n1 :> {"the", "btc", "rise", "fed", "cut"}) @@ (n2 :> {"bitcoin", "rise", "news"})

L(price, size) == [price |-> price, size |-> size]

Item(words, price) ==
    [question |-> words, category |-> "macro", active |-> TRUE, closed |-> FALSE,
     volume |-> 1000, liquidity |-> 1000, outcomes |-> <<"yes", "no">>, endDate |-> "given",
     clobTokenIds |-> <<"t1", "t2">>, outcomePrices |-> <<price, 100 - price>>]

Bitcoin(price) == Item({"will", "bitcoin", "rise"}, price)

\* Few fields, some by other names and one that is not a number.
Fed(price) ==
    [title |-> {"will", "fed", "cut"}, tags |-> <<"macro", "rates">>, volumeNum |-> 700,
     liquidity |-> 600, outcomes |-> <<"yes", "no">>, clob_token_ids |-> <<"t3", "t4">>,
     outcomePrices |-> <<price, None>>]

NoBook == [bids |-> <<>>, asks |-> <<>>]

\* The first market rises; the second has no date and no book, and its spread
\* widens.
MCQuotes ==
    (m1 :> {[item |-> Bitcoin(50), mid |-> [mid |-> 50], spread |-> [spread |-> 1],
             book |-> [bids |-> <<L(49, 2000)>>, asks |-> <<L(50, 800), L(51, 2000)>>]],
            [item |-> Bitcoin(60), mid |-> None, spread |-> None,
             book |-> [bids |-> <<L(60, 2000)>>, asks |-> <<L(62, 500), L(None, 900)>>]],
            [item |-> [Bitcoin(99) EXCEPT !.closed = TRUE], mid |-> [midpoint |-> 99],
             spread |-> None, book |-> None]})
    @@
    (m2 :> {[item |-> Fed(40), mid |-> None, spread |-> [spread |-> None], book |-> None],
            [item |-> Fed(35), mid |-> [midpoint |-> 35], spread |-> [spread |-> 9],
             book |-> NoBook]})

\* On the stream the first market falls, far enough for a day's loss.
MCMessages ==
    (m1 :> {[event_type |-> "book", bids |-> <<L(39, 9000)>>, asks |-> <<L(42, 9000)>>]})
    @@
    (m2 :> {[event_type |-> "last_trade_price", price |-> 30, bids |-> <<L(99, 1)>>]})

Output(direction, delta) ==
    [related |-> TRUE, direction |-> direction, delta |-> delta, confidence |-> 80,
     reliability |-> 90, risk |-> "low"]

\* Good news, bad news, and an answer out of shape.
MCAnswers == {Output("bullish", 9), Output("bearish", -20),
              [Output("bullish", 9) EXCEPT !.related = FALSE]}
=============================================================================
