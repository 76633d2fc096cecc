----------------------------- MODULE MCStartup -----------------------------
(* A small instance of Startup for TLC. *)
EXTENDS Startup

\* A tag of the form the error message announces, and one that serverTagRegexp, which
\* is not anchored, lets through.
PlainTag == <<"a">>
SplitTag == <<"x", "y">>
TwoTags == {PlainTag, SplitTag}
WrongTags == {<<>>, <<"+">>}

\* Plain segments, and one with another character behind the plain ones.
Longest == [s \in {"a", "x", "y", "1", "f", "dynamic", "a~"} |-> IF s = "a~" THEN "a" ELSE s]
OneInstance == {"1"}

\* A log for each server, and a file without identifier.
ThreeFiles == {<<PlainTag, "1">>, <<SplitTag, "1">>, <<SplitTag, NoText>>}

\* Base64 as it is, with a slash, and with a plus.
ThreeArchives == {<<"f">>, <<"f", "f">>, <<"f+">>}
WithPlus == {"f+"}

\* A path of each kind for each pattern, one of them with a second "dynamic"; those that
\* may end at a tree with and without the last slash, and some that are not clean.
Behind(root, rest) == {<<root>> \o s : s \in rest}
TypedPaths ==
  {<<>>, <<"server">>, <<"ws">>, <<"res", "a">>, <<"dynamic", "~", "dynamic", "a", "1">>}
  \cup Behind("server", {<<"a">>, <<"x">>})
  \cup Behind("archive", {<<"a">>, <<"a", "f">>, <<"a", "f", "f">>})
  \cup Behind("dyn-archive", {<<"a">>, <<"a", "1">>, <<"a", "1", "f">>})
  \cup Behind("dynamic", {<<>>, <<"a">>, <<"a~">>, <<"~">>, <<"a", "1">>, <<"a~", "1">>, <<"a", "~">>})
TypedAddresses ==
  {[path |-> p, slash |-> p = <<>>, clean |-> TRUE] : p \in TypedPaths}
  \cup {[path |-> p, slash |-> TRUE, clean |-> TRUE] :
         p \in {<<"dynamic">>, <<"dynamic", "a">>, <<"archive", "a">>}}
  \cup {[path |-> p, slash |-> p = <<>>, clean |-> FALSE] :
         p \in {<<>>, <<"dynamic">>, <<"dynamic", "a">>, <<"archive", "a">>, <<"server">>}}
=============================================================================
