----------------------------- MODULE MCJitBlock -----------------------------
EXTENDS JitBlock

(* Every scope of NumDefs definitions.                                     *)
AllScopes == [Slots -> [fn : BOOLEAN, refs : SUBSET Slots]]

(* The definitions that i depends on, through functions and values alike.  *)
DependsOn(s, i) ==
  LET from[n \in 0..NumDefs] ==
        IF n = 0 THEN s[i].refs
        ELSE from[n - 1] \cup UNION {s[j].refs : j \in from[n - 1]}
  IN  from[NumDefs]

(* Those in which each definition refers to at most one other, and no      *)
(* definition depends on itself.                                           *)
ChainScopes ==
  {s \in [Slots -> [fn : BOOLEAN, refs : {{}} \cup {{i} : i \in Slots}]] :
     \A i \in Slots : i \notin DependsOn(s, i)}
=============================================================================
