-------------------------------- MODULE MCRules --------------------------------
(* One behaviour per subject: a pair of texts, or a task whose model calls are *)
(* billed one after the other.                                                 *)
EXTENDS Rules, Billing

CONSTANT MaxText \* bound

MCLetters == {"x", " ", "\r", "\n"}
MCBlank == {" ", "\r", "\n"}
MCTexts == UNION {[1 .. n -> Letters] : n \in 0 .. MaxText}

\* the two prices are set together or not at all (complete_manual_price_pair)
MCConfigs == [official : BOOLEAN, model : {"flash", "other"}, currency : {"CNY"}, priceIn : {None}, priceOut : {None}]
        \cup [official : BOOLEAN, model : {"flash", "other"}, currency : {"CNY"}, priceIn : {3}, priceOut : {5}]
MCRaws == [input : {None, 3}, output : {None, 2}, hit : {None, 1}, miss : {None, 1, 2},
           cost : {None, 7}, currency : {"CNY", "USD"}]
MCTimes == {<<0, 1>>, <<0, 4>>, <<6, 1>>}

Init == BillNothing /\ Compare
Next == texts = << <<>>, <<>> >> /\ BillCall /\ UNCHANGED texts

Spec == Init /\ [][Next]_<<texts, calls, usage>>
================================================================================
