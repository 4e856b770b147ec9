-------------------------------- MODULE MCRequest --------------------------------
(***************************************************************************)
(* Instances of Request for TLC: the vocabulary of the specification of    *)
(* honest-type (a number is a precision, or a currency's decimals), and    *)
(* one whose predicates overlap, throw and match reserved words.           *)
(***************************************************************************)
EXTENDS Request

CONSTANTS r1, r2, page, k1, k2, k3

Set(tokens) == [kind |-> "set", accepts |-> tokens, throws |-> {}]
Predicate(tokens, bad) == [kind |-> "predicate", accepts |-> tokens, throws |-> bad]
Composed(name, requires, captures, optional) ==
  [name |-> name, requires |-> requires, captures |-> captures, optional |-> optional]
Slot(s) == [slot |-> s, optional |-> FALSE]
Maybe(s) == [slot |-> s, optional |-> TRUE]

Numbers == {"2", "4"}
Recognizers ==
  [t \in {"format", "integer", "word"} |->
     CASE t = "format" -> Set({"currency", "percent"})
       [] t = "integer" -> Predicate(Numbers, {})
       [] t = "word" -> Predicate({"class", "2"}, {"odd"})]

Vocabulary(types, composed) ==
  [types |-> types, recognizer |-> Recognizers, composed |-> composed]

Currency == [q \in {"format"} |-> "currency"]
Percent == [q \in {"format"} |-> "percent"]

Vocabularies ==
  {Vocabulary(<<"format", "integer", "word">>, << >>),
   Vocabulary(<<"format", "integer">>, << Composed("decimals", Currency, "integer", FALSE) >>),
   Vocabulary(<<"integer", "format">>, << Composed("decimals", Currency, "integer", TRUE),
                                          Composed("digits", Percent, "integer", FALSE) >>),
   Vocabulary(<<"format", "integer">>, << Composed("decimals", Currency, "integer", FALSE),
                                          Composed("shown", [q \in {"integer"} |-> "2"], "format", FALSE) >>)}

(* Of each name a slot of its own, required or not, or none, or one that   *)
(* two names share.                                                        *)
Bindings(vocab) ==
  LET names == DOMAIN AutoBinding(vocab)
  IN  {AutoBinding(vocab)}
        \cup {[t \in names \ {u} |-> Slot(t)] : u \in names}
        \cup {[t \in names |-> IF t = u THEN Maybe(t) ELSE Slot(t)] : u \in names}
        \cup {[t \in names |-> IF t \in pair THEN Slot("shared") ELSE Maybe(t)] :
                pair \in {{u, v} : u \in names, v \in names} \ {{u} : u \in names}}

Words == {"currency", "percent", "2", "4", "none", "class", "odd", Nothing, Empty, NotText}
MaxTokens == 3
MCTexts == UNION {[1..n -> Words] : n \in 0..MaxTokens}

MCEndpoints == UNION {{[vocab |-> v, bind |-> b] : b \in Bindings(v)} : v \in Vocabularies}

Symmetry == Permutations({k1, k2, k3}) \cup Permutations({r1, r2})

(* A link, then two that validate.                                         *)
MCChain == <<1, 2>>

(* Whatever is asked of every endpoint, once; two requests at one endpoint *)
(* of every vocabulary; the same request and failures.                     *)
Plain == [vocab |-> Vocabulary(<<"format", "integer">>, << >>),
          bind |-> [t \in {"format", "integer"} |-> Slot(t)]]
Asks(endpoints, texts, n) ==
  [endpoints |-> endpoints, texts |-> texts, requests |-> n, failures |-> 0]
AutoBound == {[vocab |-> v, bind |-> AutoBinding(v)] : v \in Vocabularies}
Numbered == UNION {[1..n -> {"currency", "percent", "2"}] : n \in 0..MaxTokens}
MCBudgets ==
  [b \in {"ask", "pair", "report"} |->
     IF b = "ask" THEN Asks(MCEndpoints, MCTexts, 1)
     ELSE IF b = "pair" THEN Asks(AutoBound, Numbered, 2)
     ELSE [endpoints |-> {Plain}, texts |-> {<<"percent", "4">>}, requests |-> 2, failures |-> 4]]
=============================================================================
