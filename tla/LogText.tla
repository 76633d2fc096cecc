------------------------------ MODULE LogText ------------------------------
(***************************************************************************)
(* What unstack does to the text of a read: strings.Trim(content, "\n"),   *)
(* then strings.Split(newLogs, "\n").  A text is a sequence of bytes.      *)
(***************************************************************************)
EXTENDS Naturals, Sequences, FiniteSets, FiniteSetsExt

\* The byte '\n'.
CONSTANT Newline

\* strings.Trim(s, "\n").
Trim(s) ==
  LET kept == {i \in DOMAIN s : s[i] # Newline}
  IN IF kept = {} THEN <<>> ELSE SubSeq(s, Min(kept), Max(kept))

\* strings.Split(s, "\n"): one line more than s has newlines.  Cut(k) is where the
\* k-th line begins (less one), and where the line before it ends.
Split(s) ==
  LET cuts == {0, Len(s) + 1} \cup {i \in DOMAIN s : s[i] = Newline}
      Cut(k) == CHOOSE i \in cuts : Cardinality({j \in cuts : j < i}) = k - 1
  IN [k \in 1 .. Cardinality(cuts) - 1 |-> SubSeq(s, Cut(k) + 1, Cut(k + 1) - 1)]

\* The lines of one read; none when it holds newlines only.
Lines(s) == LET text == Trim(s) IN IF text = <<>> THEN <<>> ELSE Split(text)

\* A text without its newlines.
Joined(s) ==
  LET joined[k \in 0 .. Len(s)] ==
        IF k = 0 THEN <<>>
        ELSE IF s[k] = Newline THEN joined[k - 1] ELSE Append(joined[k - 1], s[k])
  IN joined[Len(s)]
=============================================================================
