--------------------------- MODULE MCSessionViews ---------------------------
EXTENDS TurnTexts

\* No conversation before the archive, or one longer than HistoryLimit.
MCPriors == {<<>>, <<Message("user", "old")>> \o Reply}
MCTurnNames == <<"t1", "t2", "t3", "t4">>
=============================================================================
