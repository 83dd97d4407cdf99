----------------------------- MODULE MCScopePaths -----------------------------
(* An instance of ScopePaths for TLC: texts over 'a', '-', '0' and '/',     *)
(* with siblings that sort between a path and its descendants, and texts    *)
(* that no path may have.                                                   *)
EXTENDS ScopePaths

space == 32
tab == 9
a == 97
minus == 45
zero == 48

MCTexts ==
  {<<a>>, <<a, minus>>, <<a, zero>>, <<a, Slash, a>>, <<a, Slash, a, minus>>,
   <<a, minus, Slash, a>>, <<a, Slash, a, Slash, a>>,
   <<space, a, Slash, a, tab>>, <<space>>, <<a, Slash>>, <<a, space, a>>,
   <<a, Slash, zero, Slash, zero, Slash, a>>}

Few(n) == UNION {kSubset(k, MCTexts) : k \in 0 .. n}
Grants(texts) == [whole : {FALSE}, texts : texts] \cup {[whole |-> TRUE, texts |-> {}]}

(* Two grants of at most two texts, or one of at most four.                 *)
MCInputs ==
  {<< >>} \cup [1 .. 1 -> Grants(Few(4))] \cup [1 .. 2 -> Grants(Few(2))]
===============================================================================
