----------------------------- MODULE MCTransfer -----------------------------
(* Transfer for TLC: two vaults and their files, small enough to enumerate. *)
EXTENDS Transfer
CONSTANTS va, vb, fa, fb, fc, n1, n2, n3, n4, s1, s2

AnEntry(n, s, note) == [name |-> n, secret |-> Buffer(s), note |-> Buffer(note), deleted |-> FALSE]
ARow(n, s, note) == [name |-> n, secret |-> s, note |-> note]
Holds(a, t) == [account |-> a, totp |-> t]
Foreign(columns, rows, bad) == [columns |-> columns, rows |-> rows, bad |-> bad, origin |-> None]

\* Distinct names, an account without a note, a secret nobody typed.
MCStart == [v \in {va, vb} |-> IF v = va THEN Holds(<<AnEntry(n1, s1, Empty), AnEntry(n2, s2, s1)>>,
                                                  <<AnEntry(n1, Empty, Empty)>>)
                              ELSE Holds(<<>>, <<>>)]
\* One file to export to, one with rows that repeat a name, and one whose second
\* row cannot be read.
Rows(n, m) == <<ARow(n, s1, Empty), ARow(m, s2, s1)>>
MCGiven == [f \in {fa, fb, fc} |-> CASE f = fa -> Absent
                                    [] f = fb -> Foreign(Columns["account"], Rows(n3, n3), {})
                                    [] f = fc -> Foreign(Columns["account"], Rows(n4, n3), {2})]
=============================================================================
