---------------------------- MODULE Highlighting ----------------------------
(***************************************************************************)
(* The rules of syntax highlighting of one server, as ServerConfig's       *)
(* loadCommon (config.go) normalises them: a rule without a field name is  *)
(* removed from the slice under the range over that slice, a rule without  *)
(* a regexp gets one that matches nothing.                                 *)
(***************************************************************************)
EXTENDS GoSlice

CONSTANTS
  Field,      \* names of fields in the configuration file, NoField included
  Regex,      \* regexps in the configuration file, NoRegex included
  MaxRules    \* bound: rules of a server

NoField == ""
NoRegex == ""
MatchNothing == "/.^/"

Rule == [field : Field, regex : Regex]

VARIABLES
  status,  \* "loading", "loaded", or "panic"
  rules,   \* servCfg.SyntaxHighlightingRegexps
  heap,    \* the array behind it
  ranged,  \* the slice the range evaluated
  i,       \* the index of the loop, from 1
  given    \* auxiliary: the rules of the configuration file

vars == <<status, rules, heap, ranged, i, given>>

Whole == [arr |-> 1, len |-> Len(given)]

Init ==
  /\ given \in UNION {[1 .. n -> Rule] : n \in 0 .. MaxRules}
  /\ status = "loading"
  /\ heap = <<[of |-> "rules", cells |-> given]>>
  /\ rules = Whole /\ ranged = Whole
  /\ i = 1

InLoop == status = "loading" /\ i <= ranged.len

\* The copy of the element that the range makes.
RegexField == CellsOf(heap, ranged)[i]

\* append(rules[:i], rules[i+1:]...): rules[i+1:] panics past the end.
RemoveRule ==
  /\ InLoop /\ RegexField.field = NoField
  /\ \/ /\ i > rules.len
        /\ status' = "panic"
        /\ UNCHANGED <<rules, heap, i>>
     \/ /\ i <= rules.len
        /\ heap' = HeapAfterRemove(heap, rules, i)
        /\ rules' = SliceAfterRemove(rules)
        /\ i' = i + 1
        /\ UNCHANGED status
  /\ UNCHANGED <<ranged, given>>

\* rules[i].Regex = "/.^/": the index panics past the end.
SetRegex ==
  /\ InLoop /\ RegexField.field # NoField /\ RegexField.regex = NoRegex
  /\ \/ /\ i > rules.len
        /\ status' = "panic"
        /\ UNCHANGED <<heap, i>>
     \/ /\ i <= rules.len
        /\ heap' = [heap EXCEPT ![1].cells[i].regex = MatchNothing]
        /\ i' = i + 1
        /\ UNCHANGED status
  /\ UNCHANGED <<rules, ranged, given>>

KeepRule ==
  /\ InLoop /\ RegexField.field # NoField /\ RegexField.regex # NoRegex
  /\ i' = i + 1
  /\ UNCHANGED <<status, rules, heap, ranged, given>>

EndLoop ==
  /\ status = "loading" /\ i > ranged.len
  /\ status' = "loaded"
  /\ UNCHANGED <<rules, heap, ranged, i, given>>

Next == RemoveRule \/ SetRegex \/ KeepRule \/ EndLoop

Spec == Init /\ [][Next]_vars

-----------------------------------------------------------------------------
(* The property *)

Named(s) == SelectSeq(s, LAMBDA r : r.field # NoField)

\* What the loop is for.
Normal(s) ==
  LET named == Named(s)
  IN [k \in DOMAIN named |->
        IF named[k].regex = NoRegex THEN [named[k] EXCEPT !.regex = MatchNothing]
                                    ELSE named[k]]

Result == Elements(heap, rules)

\* config.go:322, "it will be ignored": a rule without a field name has no effect.
UnnamedRulesAreIgnored ==
  status # "loading" => status = "loaded" /\ Result = Normal(given)
=============================================================================
