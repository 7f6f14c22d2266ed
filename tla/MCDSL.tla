-------------------------------- MODULE MCDSL --------------------------------
(* Two fields and a function, a number of each form, and four stocks.  The   *)
(* first vocabulary has an operator of each level, the second those of a     *)
(* search with several conditions, the third calls with several arguments.   *)
EXTENDS DSL

MCNames == {"close", "volume", "pre_event_ma"}
MCCounts == {"0", "1", "2"}
MCFractions == {"1.5"}
MCStrings == {"'a'"}
MCValueOf == [n \in MCCounts \cup MCFractions |->
                CASE n = "0" -> <<0, 1>> [] n = "1" -> <<1, 1>> [] n = "2" -> <<2, 1>> [] n = "1.5" -> <<3, 2>>]
MCPreEventMA == [d \in {1} |-> <<3, 2>>]

MCFields == {"close", "volume"}
MCStocks == [close : {1, 2}, volume : {0, 2}]
MCLatest == [s \in MCStocks |-> s]

ClauseWords == {"scan", "where", "sort", "by", "asc", "desc", "limit"}
MCVocabularies ==
  {[tokens |-> {"scan", "where", "close", "pre_event_ma", "1", "true", "or", "and", "<", "-", "*",
                "not", "(", ")", "="},
    maxTokens |-> 5],
   [tokens |-> ClauseWords \cup {"close", "volume", "1", "1.5", "and", ">="},
    maxTokens |-> 7],
   [tokens |-> {"pre_event_ma", "1", "1.5", "-", "(", ")", ","},
    maxTokens |-> 7]}
==============================================================================
