------------------------------ MODULE MCJitTop -------------------------------
EXTENDS JitTop

(* Every scope of NumDefs definitions.                                     *)
AllScopes == [Slots -> [fn : BOOLEAN, refs : SUBSET Slots]]

(* Those whose values can be evaluated in source order, with at most one   *)
(* reference in each definition.                                           *)
OrderedScopes ==
  {s \in [Slots -> [fn : BOOLEAN, refs : {{}} \cup {{i} : i \in Slots}]] :
     \A v \in Slots : ~s[v].fn => ~NeedsLater(s, v)}
=============================================================================
